---- MODULE Spec2Model ----
(***************************************************************************)
(* Turn engine of the drawzzl backend (src/src/index.ts, lines 1-905).     *)
(*                                                                         *)
(* One room is modelled.  Every `await` of a handler is a yield point: the *)
(* store executes the call when it is issued, and the continuation of the  *)
(* handler is a later, separate step, so that the continuations of         *)
(* different handlers and timer callbacks interleave as they do on the     *)
(* Node event loop.  The code between two awaits is one atomic step.       *)
(*                                                                         *)
(* Time is kept as differences to the present: a stored instant such as    *)
(* turnEndsAt holds "seconds from now" and Advance lowers all of them.     *)
(***************************************************************************)
EXTENDS Integers, Sequences, FiniteSets, TLC

VARIABLES
    db,                     \* the Room document in the store
    procs,                  \* handlers and callbacks suspended at an await
    roomIntervals,          \* Map roomId -> interval (id of the interval, 0 = none)
    ivals,                  \* live (not cleared) tick intervals with their hintState
    wordSelectionTimeouts,  \* Map roomId -> timeout (id, 0 = none)
    wsts,                   \* pending word-selection timeouts
    inters,                 \* pending intermission timeouts (seconds left)
    endTurnInProgress,      \* Map roomId -> boolean
    inRoom,                 \* sockets that have joined the socket.io room
    gone,                   \* sockets that have disconnected
    obs,                    \* observations of the run (emitted events, per turn)
    pf                      \* inputs and result of the scoring functions

vars == <<db, procs, roomIntervals, ivals, wordSelectionTimeouts, wsts, inters,
          endTurnInProgress, inRoom, gone, obs, pf>>

-----------------------------------------------------------------------------
(* Program constants *)

MS_PER_SECOND == 1000
TURN_SECONDS == 60
MAX_POINTS == 500
MIN_POINTS == 50
DRAWER_BONUS_PER_GUESSER == 50
WORD_SELECT_SECONDS == 8
INTERMISSION_SECONDS == 5
SECOND_HINT_TIME == 15
MAX_SAVE_ATTEMPTS == 3
DEFAULT_MAX_PLAYERS == 8
MIN_DRAW_TIME == 30
MAX_DRAW_TIME == 180
DEFAULT_MAX_ROUNDS == 3
DEFAULT_DRAW_TIME == 60
MIN_ROUNDS == 1
MAX_ROUNDS == 10
MIN_MAX_PLAYERS == 2
MAX_MAX_PLAYERS == 15
MIN_WORD_COUNT == 3
MAX_WORD_COUNT == 5
MIN_PROBABILITY == 0
MAX_PROBABILITY == 100

(* Bounds of the model *)

MaxInFlight == 2        \* handlers and callbacks suspended at the same time
MaxRaces == 1           \* times a handler starts while another one is suspended
MaxEvents == 4          \* events the clients send in one run
MaxHintEvents == 3      \* events the clients send in the run of one DRAWING phase
MaxTurns == 2           \* turns started in one run
InstantStep == 250      \* milliseconds between the instants of a scored guess
MaxRoundsSetting == 1   \* largest maxRounds chosen by the host
MaxGameRounds == 2      \* largest maxRounds of the games played one handler at a time
MaxGameTurns == 4       \* turns started in a run of such games

Sockets == {"a", "b", "c"}
Host == "a"
Words == {"cat"}
NoWord == ""
ClockSteps == {15}
DrawTimes == {30}
FixedLists == {<<"a", "b">>, <<"a", "b", "c">>}
RacedList == <<"a", "b">>       \* the list whose handlers are raced

Min(a, b) == IF a < b THEN a ELSE b
Max(a, b) == IF a > b THEN a ELSE b

RECURSIVE SumSeq(_)
SumSeq(s) == IF s = <<>> THEN 0 ELSE Head(s) + SumSeq(Tail(s))

RECURSIVE SumOver(_, _)
SumOver(f, S) ==
    IF S = {} THEN 0
    ELSE LET x == CHOOSE y \in S : TRUE IN f[x] + SumOver(f, S \ {x})

SeqToSet(s) == {s[i] : i \in DOMAIN s}

-----------------------------------------------------------------------------
(* The Room document *)

NewPlayer(id, drawer) == [id |-> id, score |-> 0, isDrawer |-> drawer]

NoPoints == [s \in Sockets |-> 0]

\* createRoom: the document built by `new Room({...})`
NewRoom(rounds, drawTime) ==
    [exists |-> TRUE,
     players |-> <<NewPlayer(Host, TRUE)>>,
     maxPlayers |-> DEFAULT_MAX_PLAYERS,
     gameStarted |-> FALSE,
     round |-> 1,
     drawerIndex |-> 0,
     maxRounds |-> rounds,
     currentWord |-> NoWord,
     turnEndsAt |-> 0,
     correctGuessers |-> <<>>,
     roundPoints |-> NoPoints,
     revealedLetters |-> <<>>,
     drawTime |-> drawTime,
     wordCount |-> MIN_WORD_COUNT,
     customWordProbability |-> MIN_PROBABILITY,
     chat |-> <<>>]

\* what findOne resolves to when there is no such room
NoRoom == [NewRoom(0, 0) EXCEPT !.exists = FALSE, !.players = <<>>]

hasPlayers(room) == room.exists /\ Len(room.players) > 0

getDrawerIndex(room) ==
    LET len == Len(room.players) IN
    IF len = 0 THEN 0 ELSE Min(Max(0, room.drawerIndex), len - 1)

\* getDrawer(room)?.id ; "-" stands for undefined
getDrawerId(room) ==
    IF Len(room.players) = 0 THEN "-" ELSE room.players[getDrawerIndex(room) + 1].id

PlayerIds(room) == {room.players[i].id : i \in DOMAIN room.players}

IndexOf(room, id) ==
    IF id \in PlayerIds(room)
    THEN CHOOSE i \in DOMAIN room.players :
            /\ room.players[i].id = id
            /\ \A j \in DOMAIN room.players : room.players[j].id = id => i <= j
    ELSE 0

MarkDrawer(room) ==
    LET safeIdx == getDrawerIndex(room) IN
    [i \in DOMAIN room.players |->
        [room.players[i] EXCEPT !.isDrawer = (i - 1 = safeIdx)]]

\* a rotation that stops at the last player instead of wrapping
nextIdxClamped(room) == Min(getDrawerIndex(room) + 1, Len(room.players) - 1)

\* const nextIdx = (currentIdx + 1) % room.players.length
nextIdx(room) == (getDrawerIndex(room) + 1) % Len(room.players)

TotalScore(room) == SumSeq([i \in DOMAIN room.players |-> room.players[i].score])

-----------------------------------------------------------------------------
(* Scoring *)

\* calculatePoints without the 5-second steps
calculatePointsUnstepped(timeRemaining, maxTime) ==
    Max(MIN_POINTS, (MAX_POINTS * timeRemaining) \div maxTime)

\* calculatePoints(timeRemaining, maxTime); Math.floor(MAX_POINTS * (intervalTime /
\* maxTime)) is the integer quotient: the products that are whole numbers have an
\* intervalTime that is a multiple of 15, whose quotient by 60 is exact in binary.
calculatePoints(timeRemaining, maxTime) ==
    LET intervalTime == (timeRemaining \div 5) * 5
        points == (MAX_POINTS * intervalTime) \div maxTime
    IN  Max(MIN_POINTS, points)

\* Math.max(0, Math.ceil((endsAt - now) / 1000)), both instants in milliseconds
SecondsLeft(endsAtMs, nowMs) ==
    LET diff == endsAtMs - nowMs IN
    IF diff <= 0 THEN 0 ELSE (diff + MS_PER_SECOND - 1) \div MS_PER_SECOND

-----------------------------------------------------------------------------
(* The store.  room.save() sends the paths modified since the document was   *)
(* loaded.  The Room schema (models/Room.ts) keeps the default version key   *)
(* and does not enable optimisticConcurrency, so a save is guarded by the    *)
(* version only when it touches an array: replacing an array checks and      *)
(* raises the version, a push alone raises it unchecked, a write into an     *)
(* array element checks it, and a save of plain fields does neither.         *)

ArrayPaths == {"players", "correctGuessers", "revealedLetters", "chat"}

\* f: replaced paths, push / pushP: pushes to correctGuessers / players,
\* sc / dr: players[i].score / players[i].isDrawer written, rp: roundPoints keys set,
\* pushC: pushes to chat
NoDelta == [f |-> {}, push |-> <<>>, pushP |-> <<>>, sc |-> {}, dr |-> {}, rp |-> {},
            pushC |-> <<>>]

\* the paths of `names` whose value the handler has changed
Dirty(old, new, names) == {n \in names : old[n] # new[n]}

\* the players whose isDrawer flag the handler has changed
DirtyDrawer(old, new) ==
    {i \in DOMAIN new : i \in DOMAIN old /\ old[i].isDrawer # new[i].isDrawer}

VersionModes(dl) ==
    LET replaces == dl.f \cap ArrayPaths # {}
        pushes == dl.push # <<>> \/ dl.pushP # <<>> \/ dl.pushC # <<>>
        element == dl.sc # {} \/ dl.dr # {}
    IN  IF replaces THEN {"all"}
        ELSE IF pushes /\ element THEN {"where", "inc"}
        ELSE IF pushes THEN {"inc"}
        ELSE IF element THEN {"where"}
        ELSE {"none"}

ApplyDelta(room, doc, dl) ==
    LET Pick(name, old, new) == IF name \in dl.f THEN new ELSE old
        written == [i \in DOMAIN room.players |->
                      IF i <= Len(doc.players)
                      THEN [room.players[i] EXCEPT
                              !.score = IF i \in dl.sc THEN doc.players[i].score ELSE @,
                              !.isDrawer = IF i \in dl.dr THEN doc.players[i].isDrawer ELSE @]
                      ELSE room.players[i]]
    IN  [exists |-> room.exists,
         players |-> IF "players" \in dl.f THEN doc.players ELSE written \o dl.pushP,
         maxPlayers |-> Pick("maxPlayers", room.maxPlayers, doc.maxPlayers),
         gameStarted |-> Pick("gameStarted", room.gameStarted, doc.gameStarted),
         round |-> Pick("round", room.round, doc.round),
         drawerIndex |-> Pick("drawerIndex", room.drawerIndex, doc.drawerIndex),
         maxRounds |-> Pick("maxRounds", room.maxRounds, doc.maxRounds),
         currentWord |-> Pick("currentWord", room.currentWord, doc.currentWord),
         turnEndsAt |-> Pick("turnEndsAt", room.turnEndsAt, doc.turnEndsAt),
         correctGuessers |-> IF "correctGuessers" \in dl.f THEN doc.correctGuessers
                             ELSE room.correctGuessers \o dl.push,
         roundPoints |-> IF "roundPoints" \in dl.f THEN doc.roundPoints
                         ELSE [s \in Sockets |-> IF s \in dl.rp THEN doc.roundPoints[s]
                                                 ELSE room.roundPoints[s]],
         revealedLetters |-> Pick("revealedLetters", room.revealedLetters,
                                  doc.revealedLetters),
         drawTime |-> Pick("drawTime", room.drawTime, doc.drawTime),
         wordCount |-> Pick("wordCount", room.wordCount, doc.wordCount),
         customWordProbability |-> Pick("customWordProbability",
                                        room.customWordProbability,
                                        doc.customWordProbability),
         chat |-> room.chat \o dl.pushC]

\* the result of room.save() in that version mode, from a document that a
\* version-raising save has overtaken (stale) or not
SaveResult(stale, mode) ==
    IF mode \in {"all", "where"}
    THEN IF ~db.exists \/ stale THEN "VersionError" ELSE "ok"
    ELSE IF ~db.exists THEN "NotFound" ELSE "ok"

\* the store after room.save() with that result
Saved(res, doc, dl) == IF res = "ok" THEN ApplyDelta(db, doc, dl) ELSE db

\* documents loaded before a committed, version-raising save are behind the store
Overtaken(res, mode, P) ==
    IF res = "ok" /\ mode \in {"all", "inc"}
    THEN {[q EXCEPT !.stale = TRUE] : q \in P}
    ELSE P

-----------------------------------------------------------------------------
(* Suspended handlers *)

NoX == [n |-> 0, tid |-> 0, word |-> NoWord, choices |-> {}, att |-> 0, pts |-> 0,
        rounds |-> 0, mp |-> 0, wc |-> 0, prob |-> 0,
        res |-> "ok", secs |-> 0, dt |-> 0, fresh |-> NoRoom, guessers |-> <<>>]

Proc(k, pc, s, doc, stale, x) ==
    [k |-> k, pc |-> pc, s |-> s, doc |-> doc, stale |-> stale, x |-> x]

InFlight == Cardinality(procs)

\* a handler starts beside the suspended ones P; n tells apart two handlers that
\* are alike in everything else
Spawn(P, proc) ==
    LET n == CHOOSE i \in 1..(Cardinality(P) + 1) : i \notin {q.x.n : q \in P}
    IN  P \cup {[proc EXCEPT !.x.n = n]}

UsedIds ==
    {t.id : t \in ivals} \cup {w.id : w \in wsts} \cup {i.id : i \in inters}
    \cup {p.x.tid : p \in procs} \cup {roomIntervals, wordSelectionTimeouts}

FreshId == CHOOSE n \in 1..(Cardinality(UsedIds) + 1) : n \notin UsedIds

\* clearInterval(t): the interval stops firing; a callback of it that is already
\* suspended still runs, so its hintState is kept while such a callback exists
ClearInterval(iv, id) == {IF t.id = id THEN [t EXCEPT !.live = FALSE, !.due = FALSE] ELSE t : t \in iv}

Collect(iv, P) == {t \in iv : t.live \/ \E p \in P : p.k = "tick" /\ p.x.tid = t.id}

Connected == Sockets \ gone

-----------------------------------------------------------------------------
(* Observations of the run.  A turn begins with the first startTurn after an   *)
(* end of turn (or after the lobby); the fields below `turn` are per turn.     *)
(*   ends / commits : endTurn calls that passed the guard and emitted          *)
(*                    turnEnded / end-of-turn saves the store committed        *)
(*   overs          : gameOver events emitted in the run                       *)
(*   credits / paid : committed credits per guesser / their points in total    *)
(*   lastPts, raised: points of the latest credit; a later credit was higher   *)
(*   selects        : startDrawingPhase calls                                  *)
(*   by             : the callers of startDrawingPhase before the turn's end:  *)
(*                    "wordSelected" (the handler), "autoSelect" (the timeout) *)
(*   told           : the players yourWord was sent to before the turn's end   *)
(*   offered        : the candidate words of the latest startTurn              *)
(*   hints          : the seconds left at every hint reveal the store committed *)
(*   ranOut         : endTurn ran in DRAWING with the deadline reached         *)
(*   refused        : the latest event a handler refused for want of authority, *)
(*                    and the error events sent to its sender                  *)
(*   early          : turnEnded was emitted in DRAWING before the turn was due *)
(*   failed         : a save of a tick or of endTurn was rejected in DRAWING   *)
(*   base           : total of the persisted scores when the turn began        *)
(*   settled        : at the commit of the turn's end, the persisted           *)
(*                    roundPoints in total (rp), the increase of the persisted *)
(*                    scores since base (inc), and the points owed (owed)      *)
(*   drawers, rounds: the drawer and the round of every turn begun             *)

NoSettled == [rp |-> 0, inc |-> 0, owed |-> 0]

NoObs == [lim |-> [races |-> MaxRaces, turns |-> MaxTurns, events |-> MaxEvents],
          races |-> 0, events |-> 0, phase |-> "LOBBY", turn |-> 0,
          ends |-> 0, commits |-> 0, overs |-> 0,
          credits |-> [s \in Sockets |-> 0], paid |-> 0,
          lastPts |-> 0, raised |-> FALSE, selects |-> 0, early |-> FALSE,
          failed |-> FALSE, by |-> {}, told |-> {}, offered |-> {},
          hints |-> <<>>, ranOut |-> FALSE,
          refused |-> [k |-> "", errors |-> 0],
          base |-> 0, settled |-> NoSettled,
          drawers |-> <<>>, rounds |-> <<>>]

\* the observations when startTurn runs on the document r, the store becoming d
Begun(r, d) ==
    IF obs.turn = 0 \/ obs.ends >= 1
    THEN [obs EXCEPT !.phase = "CHOOSING",
                     !.turn = obs.turn + 1,
                     !.ends = 0, !.commits = 0,
                     !.credits = [s \in Sockets |-> 0], !.paid = 0,
                     !.lastPts = 0, !.raised = FALSE, !.selects = 0,
                     !.early = FALSE, !.failed = FALSE, !.by = {}, !.told = {},
                     !.hints = <<>>, !.ranOut = FALSE,
                     !.base = TotalScore(d), !.settled = NoSettled,
                     !.drawers = Append(obs.drawers, getDrawerId(r)),
                     !.rounds = Append(obs.rounds, r.round)]
    ELSE [obs EXCEPT !.phase = "CHOOSING"]

\* the observations when an end-of-turn save is committed, the store becoming d
Settled(d, owed) ==
    [rp |-> SumOver(d.roundPoints, Sockets),
     inc |-> TotalScore(d) - obs.base,
     owed |-> owed]

Cap(n) == Min(n, 2)

\* the turn of the stored room is due: its deadline is reached, or every connected
\* player other than the drawer is in correctGuessers
TurnDue ==
    \/ db.turnEndsAt <= 0
    \/ \A i \in DOMAIN db.players :
          (db.players[i].id \in inRoom /\ db.players[i].id # getDrawerId(db))
              => db.players[i].id \in SeqToSet(db.correctGuessers)

\* a handler or callback may start: alone, or beside suspended ones within the bounds
Admit == InFlight < MaxInFlight /\ (procs = {} \/ obs.races < obs.lim.races)

\* a client may send an event
AdmitEvent == Admit /\ obs.events < obs.lim.events

\* the observations after a callback has started
Raced == IF procs = {} THEN obs ELSE [obs EXCEPT !.races = obs.races + 1]

\* the observations after a client's event, whose handler has started or not
Sent(started) == [obs EXCEPT !.events = obs.events + 1,
                             !.races = IF started /\ procs # {} THEN obs.races + 1
                                       ELSE obs.races]

Init ==
    /\ \E rounds \in 1..MaxRoundsSetting, dt \in DrawTimes : db = NewRoom(rounds, dt)
    /\ procs = {}
    /\ roomIntervals = 0
    /\ ivals = {}
    /\ wordSelectionTimeouts = 0
    /\ wsts = {}
    /\ inters = {}
    /\ endTurnInProgress = FALSE
    /\ inRoom = {Host}
    /\ gone = {}
    /\ obs = NoObs
    /\ pf = [endsAt |-> 0, now |-> 0, t |-> 0, points |-> 0, drawTime |-> 0, done |-> FALSE]

-----------------------------------------------------------------------------
(* endTurn, up to its first await (index.ts 163-174).  P: the other suspended *)
(* handlers.  Sets procs' and endTurnInProgress'.                             *)

endTurn(P) ==
    IF endTurnInProgress
    THEN /\ procs' = P
         /\ UNCHANGED endTurnInProgress
    ELSE /\ endTurnInProgress' = TRUE
         /\ procs' = Spawn(P, Proc("endTurn", "loaded", "-", db, FALSE, NoX))

(* startTurn (index.ts 335-400) on the document `room` of a handler whose     *)
(* document is stale or not.  Sets db', procs', wsts', wordSelectionTimeouts' *)
(* and obs'.                                                                  *)

startTurn(room, stale, P) ==
    IF ~hasPlayers(room)
    THEN /\ procs' = P
         /\ UNCHANGED <<db, wsts, wordSelectionTimeouts, obs>>
    ELSE \E wordChoices \in (SUBSET Words) \ {{}} :
         LET drawTime == room.drawTime
             r1 == [room EXCEPT !.correctGuessers = <<>>,
                                !.gameStarted = TRUE,
                                !.turnEndsAt = drawTime + WORD_SELECT_SECONDS]
             r2 == [r1 EXCEPT !.players = MarkDrawer(r1)]
             \* markModified('players') makes the array dirty whatever it holds
             dl == [NoDelta EXCEPT
                       !.f = Dirty(room, r2, {"correctGuessers", "gameStarted"})
                             \cup {"turnEndsAt", "players"}]
             res == SaveResult(stale, "all")
             id == FreshId
         IN  /\ wsts' = wsts \cup {[id |-> id, left |-> WORD_SELECT_SECONDS,
                                    choices |-> wordChoices, dt |-> drawTime]}
             /\ wordSelectionTimeouts' = id
             /\ db' = Saved(res, r2, dl)
             /\ procs' = Overtaken(res, "all", P)
             /\ obs' = [Begun(r2, db') EXCEPT !.offered = wordChoices]

(* startDrawingPhase (index.ts 403-510).  Sets db', procs', ivals',           *)
(* roomIntervals' and obs'.                                                   *)

startDrawingPhase(room, word, drawTime, stale, P, caller) ==
    LET r1 == [room EXCEPT !.roundPoints = NoPoints, !.revealedLetters = <<>>]
        r2 == [r1 EXCEPT !.players = MarkDrawer(r1)]
        \* markModified('players') sends players whatever its value
        dl == [NoDelta EXCEPT
                  !.f = Dirty(room, r2, {"roundPoints", "revealedLetters"})
                        \cup {"players"}]
        mode == CHOOSE m \in VersionModes(dl) : TRUE
        res == SaveResult(stale, mode)
        cleared == IF roomIntervals # 0 THEN ClearInterval(ivals, roomIntervals) ELSE ivals
        id == FreshId
        timer == [id |-> id, live |-> TRUE, due |-> FALSE, first |-> FALSE,
                  second |-> FALSE, half |-> drawTime \div 2]
    IN  /\ ivals' = Collect(cleared, P) \cup {timer}
        /\ roomIntervals' = id
        /\ db' = Saved(res, r2, dl)
        /\ procs' = Overtaken(res, mode, P)
        /\ obs' = [obs EXCEPT !.phase = "DRAWING", !.selects = Cap(obs.selects + 1),
                               !.by = IF obs.ends = 0 THEN obs.by \cup {caller}
                                      ELSE obs.by,
                               !.told = IF obs.ends = 0 /\ Len(room.players) > 0
                                        THEN obs.told \cup {getDrawerId(room)}
                                        ELSE obs.told]

-----------------------------------------------------------------------------
(* socket.on('guess') (index.ts 758-826) *)

\* the event arrives and Room.findOne runs; the handler returns at once when
\* there is no room, no word or no game (line 760), and with nothing but a chat
\* echo when the guess is wrong, comes from the drawer or is repeated (778-780)
GuessEvent(s, g) ==
    /\ s \in Connected
    /\ AdmitEvent
    /\ db.exists /\ db.currentWord # NoWord /\ db.gameStarted
    /\ g = db.currentWord
    /\ s # getDrawerId(db) /\ s \notin SeqToSet(db.correctGuessers)
    /\ procs' = Spawn(procs, Proc("guess", "loaded", s, db, FALSE,
                                  [NoX EXCEPT !.word = g]))
    /\ obs' = Sent(TRUE)
    /\ UNCHANGED <<db, roomIntervals, ivals, wordSelectionTimeouts, wsts, inters,
                   endTurnInProgress, inRoom, gone, pf>>

\* lines 763-796: compare, credit on the loaded document, room.save()
GuessLoaded(p) ==
    /\ p \in procs /\ p.k = "guess" /\ p.pc = "loaded"
    /\ LET room == p.doc
           P == procs \ {p}
           isDrawer == p.s = getDrawerId(room)
           already == p.s \in SeqToSet(room.correctGuessers)
           timeRemaining == Max(0, room.turnEndsAt)
           points == calculatePoints(timeRemaining, TURN_SECONDS)
           idx == IndexOf(room, p.s)
           r1 == [room EXCEPT !.correctGuessers = Append(room.correctGuessers, p.s)]
           r2 == IF idx = 0 THEN r1
                 ELSE [r1 EXCEPT !.players[idx].score = room.players[idx].score + points,
                                 !.roundPoints[p.s] = points]
           dl == [NoDelta EXCEPT !.push = <<p.s>>,
                                 !.sc = IF idx = 0 THEN {} ELSE {idx},
                                 !.rp = IF idx = 0 THEN {} ELSE {p.s}]
       IN  IF p.x.word # room.currentWord \/ isDrawer \/ already
           THEN \* a wrong guess is echoed as chat; the drawer and a repeated guess return
                /\ procs' = P
                /\ UNCHANGED <<db, obs>>
           ELSE \E mode \in VersionModes(dl) :
                LET res == SaveResult(p.stale, mode) IN
                /\ db' = Saved(res, r2, dl)
                /\ procs' = Overtaken(res, mode, P) \cup
                       {Proc("guess", "saved", p.s, r2, p.stale,
                             [p.x EXCEPT !.res = res, !.pts = points])}
                /\ obs' = IF res = "ok" /\ idx # 0
                          THEN [obs EXCEPT
                                  !.credits[p.s] = Cap(obs.credits[p.s] + 1),
                                  !.paid = obs.paid + points,
                                  !.raised = obs.raised \/
                                             (obs.lastPts # 0 /\ points > obs.lastPts),
                                  !.lastPts = points]
                          ELSE obs
    /\ UNCHANGED <<roomIntervals, ivals, wordSelectionTimeouts, wsts, inters,
                   endTurnInProgress, inRoom, gone, pf>>

\* lines 798-810: emit correctGuess, end the turn early when everyone guessed
GuessSaved(p) ==
    /\ p \in procs /\ p.k = "guess" /\ p.pc = "saved"
    /\ LET room == p.doc
           P == procs \ {p}
           nonDrawers == Max(0, Len(room.players) - 1)
       IN  IF p.x.res # "ok"
           THEN procs' = P /\ UNCHANGED endTurnInProgress
           ELSE IF Len(room.correctGuessers) >= nonDrawers
                THEN endTurn(P)
                ELSE procs' = P /\ UNCHANGED endTurnInProgress
    /\ UNCHANGED <<db, roomIntervals, ivals, wordSelectionTimeouts, wsts, inters,
                   inRoom, gone, obs, pf>>

-----------------------------------------------------------------------------
(* The tick callback of startDrawingPhase's interval (index.ts 453-503) *)

WordLength(w) == IF w = "cat" THEN 3 ELSE IF w = "dog" THEN 3 ELSE 0

\* getRevealIndices(word, 1, alreadyRevealed): the index sets it can return
getRevealIndices(word, alreadyRevealed) ==
    LET available == (0..(WordLength(word) - 1)) \ SeqToSet(alreadyRevealed) IN
    IF available = {} THEN {<<>>} ELSE {<<i>> : i \in available}

\* the interval fires and Room.findOne runs; the callback returns at once when
\* there is no room or no word (line 456)
TickFire(t) ==
    /\ t \in ivals /\ t.live /\ t.due
    /\ Admit
    /\ LET iv == (ivals \ {t}) \cup {[t EXCEPT !.due = FALSE]} IN
       IF db.exists /\ db.currentWord # NoWord
       THEN /\ procs' = Spawn(procs, Proc("tick", "loaded", "-", db, FALSE,
                                          [NoX EXCEPT !.tid = t.id]))
            /\ ivals' = iv
       ELSE /\ procs' = procs
            /\ ivals' = iv
    /\ obs' = IF db.exists /\ db.currentWord # NoWord THEN Raced ELSE obs
    /\ UNCHANGED <<db, roomIntervals, wordSelectionTimeouts, wsts, inters,
                   endTurnInProgress, inRoom, gone, pf>>

\* lines 488-498: emit tick, then end the turn on time-out or when everyone guessed
TickFinish(p, secs, P, iv) ==
    LET r == p.doc
        everyoneGuessed == Len(r.correctGuessers) >= Max(0, Len(r.players) - 1)
    IN  IF secs <= 0 \/ everyoneGuessed
        THEN /\ ivals' = Collect(ClearInterval(iv, p.x.tid), P)
             /\ roomIntervals' = 0
             /\ endTurn(P)
        ELSE /\ ivals' = Collect(iv, P)
             /\ procs' = P
             /\ UNCHANGED <<roomIntervals, endTurnInProgress>>

\* lines 458-486: the hint reveals, each with an awaited r.save()
TickLoaded(p) ==
    /\ p \in procs /\ p.k = "tick" /\ p.pc = "loaded"
    /\ LET r == p.doc
           P == procs \ {p}
           secs == Max(0, r.turnEndsAt)
           hintState == CHOOSE t \in ivals : t.id = p.x.tid
           doFirst == ~hintState.first /\ secs <= hintState.half /\ secs > SECOND_HINT_TIME
           doSecond == ~hintState.second /\ secs <= SECOND_HINT_TIME
           marked == (ivals \ {hintState}) \cup
                     {IF doFirst THEN [hintState EXCEPT !.first = TRUE]
                                 ELSE [hintState EXCEPT !.second = TRUE]}
       IN  IF doFirst \/ doSecond
           THEN \E newIndices \in getRevealIndices(r.currentWord, r.revealedLetters) :
                LET r1 == [r EXCEPT !.revealedLetters = r.revealedLetters \o newIndices]
                    dl == [NoDelta EXCEPT !.f = Dirty(r, r1, {"revealedLetters"})]
                    mode == CHOOSE m \in VersionModes(dl) : TRUE
                    res == SaveResult(p.stale, mode)
                IN  /\ db' = Saved(res, r1, dl)
                    /\ procs' = Overtaken(res, mode, P) \cup
                           {Proc("tick", "hinted", "-", r1, p.stale,
                                 [p.x EXCEPT !.res = res, !.secs = secs])}
                    /\ ivals' = marked
                    /\ obs' = [obs EXCEPT !.failed = obs.failed \/
                                             (res # "ok" /\ obs.phase = "DRAWING"),
                                           !.hints = IF res = "ok" /\ newIndices # <<>>
                                                     THEN Append(obs.hints, secs)
                                                     ELSE obs.hints]
                    /\ UNCHANGED <<roomIntervals, endTurnInProgress>>
           ELSE /\ TickFinish(p, secs, P, ivals)
                /\ UNCHANGED <<db, obs>>
    /\ UNCHANGED <<wordSelectionTimeouts, wsts, inters, inRoom, gone, pf>>

\* after the hint's save: a rejected save ends this iteration in the catch block
TickHinted(p) ==
    /\ p \in procs /\ p.k = "tick" /\ p.pc = "hinted"
    /\ LET P == procs \ {p} IN
       IF p.x.res # "ok"
       THEN /\ procs' = P
            /\ ivals' = Collect(ivals, P)
            /\ UNCHANGED <<roomIntervals, endTurnInProgress>>
       ELSE TickFinish(p, p.x.secs, P, ivals)
    /\ UNCHANGED <<db, wordSelectionTimeouts, wsts, inters, inRoom, gone, obs, pf>>

-----------------------------------------------------------------------------
(* endTurn after Room.findOne (index.ts 175-296) *)

\* lines 175-247 and the first room.save()
EndTurnLoaded(p) ==
    /\ p \in procs /\ p.k = "endTurn" /\ p.pc = "loaded"
    /\ LET room == p.doc
           P == procs \ {p}
           di == getDrawerIndex(room) + 1
           drawerBonus == DRAWER_BONUS_PER_GUESSER * Len(room.correctGuessers)
           r1 == [room EXCEPT !.players[di].score = room.players[di].score + drawerBonus,
                              !.roundPoints[room.players[di].id] = drawerBonus]
           r2 == [r1 EXCEPT !.drawerIndex = nextIdx(r1),
                            !.round = IF nextIdx(r1) = 0 THEN r1.round + 1
                                      ELSE r1.round]
           over == r2.round > r2.maxRounds
           r3 == IF over
                 THEN [r2 EXCEPT !.gameStarted = FALSE, !.currentWord = NoWord,
                                 !.correctGuessers = <<>>]
                 ELSE [r2 EXCEPT !.currentWord = NoWord, !.correctGuessers = <<>>]
           delta == [NoDelta EXCEPT
                        !.f = Dirty(room, r3, {"drawerIndex", "round", "currentWord",
                                               "correctGuessers", "gameStarted"}),
                        !.sc = IF drawerBonus # 0 THEN {di} ELSE {},
                        !.rp = {room.players[di].id}]
       IN  IF ~hasPlayers(room)
           THEN /\ endTurnInProgress' = FALSE
                /\ procs' = P
                /\ UNCHANGED <<db, obs, ivals, roomIntervals>>
           ELSE \E doc \in {r3}, dl \in {delta} : \E mode \in VersionModes(dl) :
                LET res == SaveResult(p.stale, mode) IN
                /\ db' = Saved(res, doc, dl)
                /\ procs' = Overtaken(res, mode, P) \cup
                       {Proc("endTurn", IF over THEN "savedOver" ELSE "saved", "-", doc,
                             p.stale, [p.x EXCEPT !.res = res, !.att = 0,
                                                  !.guessers = room.correctGuessers])}
                /\ obs' = [obs EXCEPT
                             !.ends = Cap(obs.ends + 1),
                             !.early = obs.early \/ (obs.phase = "DRAWING" /\ ~TurnDue),
                             !.failed = obs.failed \/
                                        (res # "ok" /\ obs.phase = "DRAWING"),
                             !.ranOut = obs.ranOut \/
                                        (obs.phase = "DRAWING" /\ db.turnEndsAt <= 0),
                             !.phase = IF over THEN "GAMEOVER" ELSE "INTERMISSION",
                             !.overs = IF over THEN Cap(obs.overs + 1) ELSE obs.overs,
                             !.commits = IF res = "ok" THEN Cap(obs.commits + 1)
                                         ELSE obs.commits,
                             !.settled = IF res = "ok"
                                         THEN Settled(db', obs.paid + drawerBonus)
                                         ELSE obs.settled]
                /\ IF over /\ roomIntervals # 0
                   THEN /\ ivals' = Collect(ClearInterval(ivals, roomIntervals), P)
                        /\ roomIntervals' = 0
                   ELSE UNCHANGED <<ivals, roomIntervals>>
                /\ UNCHANGED endTurnInProgress
    /\ UNCHANGED <<wordSelectionTimeouts, wsts, inters, inRoom, gone, pf>>

\* lines 237-241 and 292-295: after the game-over save the flag is cleared,
\* by the normal path or by the catch block
EndTurnSavedOver(p) ==
    /\ p \in procs /\ p.k = "endTurn" /\ p.pc = "savedOver"
    /\ endTurnInProgress' = FALSE
    /\ procs' = procs \ {p}
    /\ UNCHANGED <<db, roomIntervals, ivals, wordSelectionTimeouts, wsts, inters,
                   inRoom, gone, obs, pf>>

\* lines 254-290: the retry loop around room.save(), then the intermission timeout
EndTurnSaved(p) ==
    /\ p \in procs /\ p.k = "endTurn" /\ p.pc = "saved"
    /\ LET P == procs \ {p}
           saveAttempts == p.x.att + 1
       IN  IF p.x.res = "ok"
           THEN /\ inters' = inters \cup {[id |-> FreshId, left |-> INTERMISSION_SECONDS]}
                /\ procs' = P
                /\ UNCHANGED endTurnInProgress
           ELSE IF p.x.res = "VersionError" /\ saveAttempts < MAX_SAVE_ATTEMPTS
                THEN \* Room.findOne for freshRoom
                     /\ procs' = P \cup
                            {Proc("endTurn", "reloaded", "-", p.doc,
                                  IF db.exists THEN FALSE ELSE p.stale,
                                  [p.x EXCEPT !.att = saveAttempts, !.fresh = db])}
                     /\ UNCHANGED <<inters, endTurnInProgress>>
                ELSE \* throw error: the catch block of line 292
                     /\ endTurnInProgress' = FALSE
                     /\ procs' = P
                     /\ UNCHANGED inters
    /\ UNCHANGED <<db, roomIntervals, ivals, wordSelectionTimeouts, wsts,
                   inRoom, gone, obs, pf>>

\* lines 265-271 and the next room.save().  `room` is declared const (line 174):
\* `room = freshRoom` throws TypeError where const is kept, and assigns where the
\* build lowers const to var.  Without a freshRoom the old document is saved again.
EndTurnReloaded(p) ==
    /\ p \in procs /\ p.k = "endTurn" /\ p.pc = "reloaded"
    /\ LET room == p.doc
           P == procs \ {p}
           names == {"drawerIndex", "round", "currentWord", "correctGuessers"}
           freshRoom == [p.x.fresh EXCEPT !.drawerIndex = room.drawerIndex,
                                          !.round = room.round,
                                          !.currentWord = room.currentWord,
                                          !.correctGuessers = room.correctGuessers]
           next == IF p.x.fresh.exists THEN freshRoom ELSE room
           dl == IF p.x.fresh.exists
                 THEN [NoDelta EXCEPT !.f = Dirty(p.x.fresh, freshRoom, names)]
                 ELSE [NoDelta EXCEPT !.f = names]
           mode == CHOOSE m \in VersionModes(dl) : TRUE
           res == SaveResult(p.stale, mode)
       IN  \/ /\ p.x.fresh.exists
              /\ endTurnInProgress' = FALSE
              /\ procs' = P
              /\ UNCHANGED <<db, obs>>
           \/ /\ db' = Saved(res, next, dl)
              /\ procs' = Overtaken(res, mode, P) \cup
                     {Proc("endTurn", "saved", "-", next, p.stale,
                           [p.x EXCEPT !.res = res, !.fresh = NoRoom])}
              /\ obs' = IF res = "ok"
                        THEN [obs EXCEPT
                                !.commits = Cap(obs.commits + 1),
                                !.settled = Settled(db', obs.paid +
                                    DRAWER_BONUS_PER_GUESSER * Len(p.x.guessers))]
                        ELSE obs
              /\ UNCHANGED endTurnInProgress
    /\ UNCHANGED <<roomIntervals, ivals, wordSelectionTimeouts, wsts, inters,
                   inRoom, gone, pf>>

\* the 5-second timeout of line 279 fires and Room.findOne runs
IntermissionFire(i) ==
    /\ i \in inters /\ i.left = 0
    /\ Admit
    /\ obs.turn < obs.lim.turns
    /\ inters' = inters \ {i}
    /\ procs' = Spawn(procs, Proc("intermission", "loaded", "-", db, FALSE, NoX))
    /\ obs' = Raced
    /\ UNCHANGED <<db, roomIntervals, ivals, wordSelectionTimeouts, wsts,
                   endTurnInProgress, inRoom, gone, pf>>

\* lines 282-289: startTurn on the fresh room, then the flag is cleared
IntermissionLoaded(p) ==
    /\ p \in procs /\ p.k = "intermission" /\ p.pc = "loaded"
    /\ IF p.doc.exists
       THEN startTurn(p.doc, p.stale, procs \ {p})
       ELSE /\ procs' = procs \ {p}
            /\ UNCHANGED <<db, wsts, wordSelectionTimeouts, obs>>
    /\ endTurnInProgress' = FALSE
    /\ UNCHANGED <<roomIntervals, ivals, inters, inRoom, gone, pf>>

-----------------------------------------------------------------------------
(* The word-selection timeout of startTurn (index.ts 381-392) *)

\* the timeout fires and Room.findOne runs; the callback returns at once when the
\* room is gone or a word is already set (line 383)
WordTimeoutFire(w) ==
    /\ w \in wsts /\ w.left = 0
    /\ Admit
    /\ wsts' = wsts \ {w}
    /\ procs' = IF db.exists /\ db.currentWord = NoWord
                THEN Spawn(procs, Proc("autoSelect", "loaded", "-", db, FALSE,
                                       [NoX EXCEPT !.choices = w.choices, !.dt = w.dt]))
                ELSE procs
    /\ obs' = IF db.exists /\ db.currentWord = NoWord THEN Raced ELSE obs
    /\ UNCHANGED <<db, roomIntervals, ivals, wordSelectionTimeouts, inters,
                   endTurnInProgress, inRoom, gone, pf>>

\* lines 386-389: pick one of the candidates, freshRoom.save()
AutoSelectLoaded(p) ==
    /\ p \in procs /\ p.k = "autoSelect" /\ p.pc = "loaded"
    /\ \E selectedWord \in p.x.choices :
       LET r1 == [p.doc EXCEPT !.currentWord = selectedWord]
           dl == [NoDelta EXCEPT !.f = {"currentWord"}]
           res == SaveResult(p.stale, "none")
       IN  /\ db' = Saved(res, r1, dl)
           /\ procs' = (procs \ {p}) \cup
                  {Proc("autoSelect", "saved", "-", r1, p.stale,
                        [p.x EXCEPT !.res = res, !.word = selectedWord])}
    /\ UNCHANGED <<roomIntervals, ivals, wordSelectionTimeouts, wsts, inters,
                   endTurnInProgress, inRoom, gone, obs, pf>>

\* line 391: startDrawingPhase, unless the save was rejected
AutoSelectSaved(p) ==
    /\ p \in procs /\ p.k = "autoSelect" /\ p.pc = "saved"
    /\ IF p.x.res = "ok"
       THEN startDrawingPhase(p.doc, p.x.word, p.x.dt, p.stale, procs \ {p}, p.k)
       ELSE /\ procs' = procs \ {p}
            /\ UNCHANGED <<db, ivals, roomIntervals, obs>>
    /\ UNCHANGED <<wordSelectionTimeouts, wsts, inters, endTurnInProgress,
                   inRoom, gone, pf>>

-----------------------------------------------------------------------------
(* socket.on('wordSelected') (index.ts 664-689) *)

\* the event arrives and Room.findOne runs; lines 667-670 return at once unless
\* the game is started and the sender is the drawer of the loaded room
WordSelectedEvent(s, word) ==
    /\ s \in Connected
    /\ AdmitEvent
    /\ db.exists /\ db.gameStarted
    /\ hasPlayers(db) /\ getDrawerId(db) = s
    /\ procs' = Spawn(procs, Proc("wordSelected", "loaded", s, db, FALSE,
                                  [NoX EXCEPT !.word = word]))
    /\ obs' = Sent(TRUE)
    /\ UNCHANGED <<db, roomIntervals, ivals, wordSelectionTimeouts, wsts, inters,
                   endTurnInProgress, inRoom, gone, pf>>

\* lines 672-683: clear the timeout, set the word and the deadline, room.save()
WordSelectedLoaded(p) ==
    /\ p \in procs /\ p.k = "wordSelected" /\ p.pc = "loaded"
    /\ LET drawTime == p.doc.drawTime
           r1 == [p.doc EXCEPT !.currentWord = p.x.word, !.turnEndsAt = drawTime]
           dl == [NoDelta EXCEPT !.f = {"currentWord", "turnEndsAt"}]
           res == SaveResult(p.stale, "none")
       IN  /\ db' = Saved(res, r1, dl)
           /\ procs' = (procs \ {p}) \cup
                  {Proc("wordSelected", "saved", p.s, r1, p.stale,
                        [p.x EXCEPT !.res = res, !.dt = drawTime])}
    /\ wsts' = {w \in wsts : w.id # wordSelectionTimeouts}
    /\ wordSelectionTimeouts' = 0
    /\ UNCHANGED <<roomIntervals, ivals, inters, endTurnInProgress, inRoom, gone,
                   obs, pf>>

\* line 685: startDrawingPhase; a rejected save is answered with an error event
WordSelectedSaved(p) ==
    /\ p \in procs /\ p.k = "wordSelected" /\ p.pc = "saved"
    /\ IF p.x.res = "ok"
       THEN startDrawingPhase(p.doc, p.x.word, p.x.dt, p.stale, procs \ {p}, p.k)
       ELSE /\ procs' = procs \ {p}
            /\ UNCHANGED <<db, ivals, roomIntervals, obs>>
    /\ UNCHANGED <<wordSelectionTimeouts, wsts, inters, endTurnInProgress,
                   inRoom, gone, pf>>

-----------------------------------------------------------------------------
(* socket.on('startGame') (index.ts 694-725) *)

\* the event arrives and Room.findOne runs; lines 697-713 answer with an error or
\* return unless the sender is players[0], there are 2+ players and no game runs
StartGameEvent(s) ==
    /\ s \in Connected
    /\ AdmitEvent
    /\ obs.turn < obs.lim.turns
    /\ db.exists
    /\ Len(db.players) >= 2 /\ db.players[1].id = s
    /\ ~db.gameStarted
    /\ procs' = Spawn(procs, Proc("startGame", "loaded", s, db, FALSE, NoX))
    /\ obs' = Sent(TRUE)
    /\ UNCHANGED <<db, roomIntervals, ivals, wordSelectionTimeouts, wsts, inters,
                   endTurnInProgress, inRoom, gone, pf>>

\* lines 715-717: round = 1, drawerIndex = 0, room.save()
StartGameLoaded(p) ==
    /\ p \in procs /\ p.k = "startGame" /\ p.pc = "loaded"
    /\ LET r1 == [p.doc EXCEPT !.round = 1, !.drawerIndex = 0]
           dl == [NoDelta EXCEPT !.f = Dirty(p.doc, r1, {"round", "drawerIndex"})]
           res == SaveResult(p.stale, "none")
       IN  /\ db' = Saved(res, r1, dl)
           /\ procs' = (procs \ {p}) \cup
                  {Proc("startGame", "saved", p.s, r1, p.stale, [p.x EXCEPT !.res = res])}
    /\ UNCHANGED <<roomIntervals, ivals, wordSelectionTimeouts, wsts, inters,
                   endTurnInProgress, inRoom, gone, obs, pf>>

\* line 721: startTurn; a rejected save is answered with an error event
StartGameSaved(p) ==
    /\ p \in procs /\ p.k = "startGame" /\ p.pc = "saved"
    /\ IF p.x.res = "ok"
       THEN startTurn(p.doc, p.stale, procs \ {p})
       ELSE /\ procs' = procs \ {p}
            /\ UNCHANGED <<db, wsts, wordSelectionTimeouts, obs>>
    /\ UNCHANGED <<roomIntervals, ivals, inters, endTurnInProgress, inRoom, gone, pf>>

-----------------------------------------------------------------------------
(* socket.on('updateSettings') (index.ts 565-614) *)

\* the event arrives and Room.findOne runs; lines 568-582 answer with an error
\* unless the sender is players[0] and no game runs
\* a field of the payload that is 0 (or absent) is replaced by its default
UpdateSettingsSent(s, rounds, drawTime, wordCount, maxPlayers, probability) ==
    /\ s \in Connected
    /\ AdmitEvent
    /\ db.exists
    /\ hasPlayers(db) /\ db.players[1].id = s
    /\ ~db.gameStarted
    /\ procs' = Spawn(procs, Proc("updateSettings", "loaded", s, db, FALSE,
                                  [NoX EXCEPT !.rounds = rounds, !.dt = drawTime,
                                              !.wc = wordCount, !.mp = maxPlayers,
                                              !.prob = probability]))
    /\ obs' = Sent(TRUE)
    /\ UNCHANGED <<db, roomIntervals, ivals, wordSelectionTimeouts, wsts, inters,
                   endTurnInProgress, inRoom, gone, pf>>

\* a payload with rounds and drawTime only
UpdateSettingsEvent(s, rounds, drawTime) ==
    UpdateSettingsSent(s, rounds, drawTime, 0, 0, 0)

\* x || d
OrDefault(x, d) == IF x = 0 THEN d ELSE x

\* lines 584-598: maxRounds = settings.rounds || 3, the other numbers clamped,
\* room.save(); the word list of the settings is left as it is
UpdateSettingsLoaded(p) ==
    /\ p \in procs /\ p.k = "updateSettings" /\ p.pc = "loaded"
    /\ LET r1 == [p.doc EXCEPT
                    !.maxRounds = IF p.x.rounds = 0 THEN DEFAULT_MAX_ROUNDS
                                  ELSE p.x.rounds,
                    !.drawTime = Max(MIN_DRAW_TIME, Min(MAX_DRAW_TIME,
                                     IF p.x.dt = 0 THEN DEFAULT_DRAW_TIME ELSE p.x.dt)),
                    !.wordCount = Max(MIN_WORD_COUNT, Min(MAX_WORD_COUNT,
                                      OrDefault(p.x.wc, MIN_WORD_COUNT))),
                    !.maxPlayers = Max(MIN_MAX_PLAYERS, Min(MAX_MAX_PLAYERS,
                                       OrDefault(p.x.mp, DEFAULT_MAX_PLAYERS))),
                    !.customWordProbability =
                        Max(MIN_PROBABILITY, Min(MAX_PROBABILITY,
                            OrDefault(p.x.prob, MIN_PROBABILITY)))]
           dl == [NoDelta EXCEPT
                     !.f = Dirty(p.doc, r1, {"maxRounds", "drawTime", "wordCount",
                                             "maxPlayers", "customWordProbability"})]
           res == SaveResult(p.stale, "none")
       IN  /\ db' = Saved(res, r1, dl)
           /\ procs' = (procs \ {p}) \cup
                  {Proc("updateSettings", "saved", p.s, r1, p.stale,
                        [p.x EXCEPT !.res = res])}
    /\ UNCHANGED <<roomIntervals, ivals, wordSelectionTimeouts, wsts, inters,
                   endTurnInProgress, inRoom, gone, obs, pf>>

\* lines 600-613: settingsUpdated is broadcast, or an error event is sent
UpdateSettingsSaved(p) ==
    /\ p \in procs /\ p.k = "updateSettings" /\ p.pc = "saved"
    /\ procs' = procs \ {p}
    /\ UNCHANGED <<db, roomIntervals, ivals, wordSelectionTimeouts, wsts, inters,
                   endTurnInProgress, inRoom, gone, obs, pf>>

-----------------------------------------------------------------------------
(* socket.on('joinRoom') (index.ts 620-659) *)

\* the event arrives and Room.findOne runs; lines 630-637 answer with an error
\* when the room is unknown or full
JoinEvent(s) ==
    /\ s \in Connected
    /\ AdmitEvent
    /\ ~(s \in PlayerIds(db) /\ s \in inRoom)
    /\ db.exists /\ Len(db.players) < db.maxPlayers
    /\ procs' = Spawn(procs, Proc("joinRoom", "loaded", s, db, FALSE, NoX))
    /\ obs' = Sent(TRUE)
    /\ UNCHANGED <<db, roomIntervals, ivals, wordSelectionTimeouts, wsts, inters,
                   endTurnInProgress, inRoom, gone, pf>>

\* lines 639-646: push the player and room.save(), or join the socket.io room at
\* once when the player is already listed
JoinLoaded(p) ==
    /\ p \in procs /\ p.k = "joinRoom" /\ p.pc = "loaded"
    /\ LET room == p.doc
           alreadyIn == p.s \in PlayerIds(room)
           r1 == [room EXCEPT !.players = Append(room.players, NewPlayer(p.s, FALSE))]
           dl == [NoDelta EXCEPT !.pushP = <<NewPlayer(p.s, FALSE)>>]
       IN  IF alreadyIn
           THEN /\ procs' = procs \ {p}
                /\ inRoom' = inRoom \cup {p.s}
                /\ UNCHANGED db
           ELSE LET res == SaveResult(p.stale, "inc") IN
                /\ db' = Saved(res, r1, dl)
                /\ procs' = Overtaken(res, "inc", procs \ {p}) \cup
                       {Proc("joinRoom", "saved", p.s, r1, p.stale, [p.x EXCEPT !.res = res])}
                /\ UNCHANGED inRoom
    /\ UNCHANGED <<roomIntervals, ivals, wordSelectionTimeouts, wsts, inters,
                   endTurnInProgress, gone, obs, pf>>

\* lines 645-653: socket.join and the playerJoined broadcasts; a rejected save is
\* answered with an error event
JoinSaved(p) ==
    /\ p \in procs /\ p.k = "joinRoom" /\ p.pc = "saved"
    /\ procs' = procs \ {p}
    /\ inRoom' = IF p.x.res = "ok" /\ p.s \notin gone THEN inRoom \cup {p.s} ELSE inRoom
    /\ UNCHANGED <<db, roomIntervals, ivals, wordSelectionTimeouts, wsts, inters,
                   endTurnInProgress, gone, obs, pf>>

-----------------------------------------------------------------------------
(* socket.on('disconnect') (index.ts 831-896) *)

\* the socket closes; for the room it had joined Room.findOne runs (line 837)
DisconnectEvent(s) ==
    /\ s \in Connected
    /\ AdmitEvent
    /\ gone' = gone \cup {s}
    /\ inRoom' = inRoom \ {s}
    /\ procs' = IF s \in inRoom /\ db.exists
                THEN Spawn(procs, Proc("disconnect", "loaded", s, db, FALSE, NoX))
                ELSE procs
    /\ obs' = Sent(s \in inRoom /\ db.exists)
    /\ UNCHANGED <<db, roomIntervals, ivals, wordSelectionTimeouts, wsts, inters,
                   endTurnInProgress, pf>>

\* lines 847-859: remove the player, reset an out-of-range drawerIndex, room.save()
DisconnectLoaded(p) ==
    /\ p \in procs /\ p.k = "disconnect" /\ p.pc = "loaded"
    /\ LET room == p.doc
           Others(q) == q.id # p.s
           kept == SelectSeq(room.players, Others)
           r1 == [room EXCEPT !.players = kept,
                              !.drawerIndex = IF room.drawerIndex >= Len(kept) THEN 0
                                              ELSE room.drawerIndex]
           dl == [NoDelta EXCEPT !.f = Dirty(room, r1, {"players", "drawerIndex"})]
           mode == CHOOSE m \in VersionModes(dl) : TRUE
           res == SaveResult(p.stale, mode)
       IN  /\ db' = Saved(res, r1, dl)
           /\ procs' = Overtaken(res, mode, procs \ {p}) \cup
                  {Proc("disconnect", "saved", p.s, r1, p.stale, [p.x EXCEPT !.res = res])}
    /\ UNCHANGED <<roomIntervals, ivals, wordSelectionTimeouts, wsts, inters,
                   endTurnInProgress, inRoom, gone, obs, pf>>

\* lines 861-895: Room.deleteOne for an emptied room, else the broadcasts
DisconnectSaved(p) ==
    /\ p \in procs /\ p.k = "disconnect" /\ p.pc = "saved"
    /\ IF p.x.res = "ok" /\ Len(p.doc.players) = 0
       THEN /\ db' = NoRoom
            /\ procs' = (procs \ {p}) \cup
                   {Proc("disconnect", "deleted", p.s, p.doc, p.stale, p.x)}
       ELSE /\ procs' = procs \ {p}
            /\ UNCHANGED db
    /\ UNCHANGED <<roomIntervals, ivals, wordSelectionTimeouts, wsts, inters,
                   endTurnInProgress, inRoom, gone, obs, pf>>

\* lines 864-872: after the deletion both timers and the end-turn flag are dropped
DisconnectDeleted(p) ==
    /\ p \in procs /\ p.k = "disconnect" /\ p.pc = "deleted"
    /\ procs' = procs \ {p}
    /\ ivals' = Collect(IF roomIntervals # 0 THEN ClearInterval(ivals, roomIntervals)
                        ELSE ivals, procs \ {p})
    /\ roomIntervals' = 0
    /\ wsts' = {w \in wsts : w.id # wordSelectionTimeouts}
    /\ wordSelectionTimeouts' = 0
    /\ endTurnInProgress' = FALSE
    /\ UNCHANGED <<db, inters, inRoom, gone, obs, pf>>

-----------------------------------------------------------------------------
(* The clock.  A due timer fires before the clock moves on, and the store     *)
(* answers within the step: no handler is suspended when the clock moves.     *)

Later(n, d) == Max(0, n - d)

\* the clock stops at the next timeout that falls within d seconds
RECURSIVE MinOf(_)
MinOf(S) == LET x == CHOOSE y \in S : TRUE IN
            IF S = {x} THEN x ELSE Min(x, MinOf(S \ {x}))

NextDeadline(d) == MinOf({d} \cup {w.left : w \in wsts} \cup {i.left : i \in inters})

Advance(d) ==
    /\ procs = {}
    /\ \A w \in wsts : w.left > 0
    /\ \A i \in inters : i.left > 0
    /\ \A t \in ivals : ~(t.live /\ t.due)
    /\ \/ wsts # {} \/ inters # {} \/ \E t \in ivals : t.live
    /\ LET e == NextDeadline(d) IN
       /\ wsts' = {[w EXCEPT !.left = Later(w.left, e)] : w \in wsts}
       /\ inters' = {[i EXCEPT !.left = Later(i.left, e)] : i \in inters}
       /\ ivals' = {IF t.live THEN [t EXCEPT !.due = TRUE] ELSE t : t \in ivals}
       /\ db' = [db EXCEPT !.turnEndsAt = Later(db.turnEndsAt, e)]
    /\ UNCHANGED <<procs, roomIntervals, wordSelectionTimeouts, endTurnInProgress,
                   inRoom, gone, obs, pf>>

-----------------------------------------------------------------------------
Next ==
    \/ \E s \in Sockets, g \in Words : GuessEvent(s, g)
    \/ \E p \in procs : GuessLoaded(p)
    \/ \E p \in procs : GuessSaved(p)
    \/ \E t \in ivals : TickFire(t)
    \/ \E p \in procs : TickLoaded(p)
    \/ \E p \in procs : TickHinted(p)
    \/ \E p \in procs : EndTurnLoaded(p)
    \/ \E p \in procs : EndTurnSavedOver(p)
    \/ \E p \in procs : EndTurnSaved(p)
    \/ \E p \in procs : EndTurnReloaded(p)
    \/ \E i \in inters : IntermissionFire(i)
    \/ \E p \in procs : IntermissionLoaded(p)
    \/ \E w \in wsts : WordTimeoutFire(w)
    \/ \E p \in procs : AutoSelectLoaded(p)
    \/ \E p \in procs : AutoSelectSaved(p)
    \/ \E s \in Sockets, w \in Words : WordSelectedEvent(s, w)
    \/ \E p \in procs : WordSelectedLoaded(p)
    \/ \E p \in procs : WordSelectedSaved(p)
    \/ \E s \in Sockets : StartGameEvent(s)
    \/ \E p \in procs : StartGameLoaded(p)
    \/ \E p \in procs : StartGameSaved(p)
    \/ \E s \in Sockets : JoinEvent(s)
    \/ \E p \in procs : JoinLoaded(p)
    \/ \E p \in procs : JoinSaved(p)
    \/ \E s \in Sockets : DisconnectEvent(s)
    \/ \E p \in procs : DisconnectLoaded(p)
    \/ \E p \in procs : DisconnectSaved(p)
    \/ \E p \in procs : DisconnectDeleted(p)
    \/ \E d \in ClockSteps : Advance(d)

Spec == Init /\ [][Next]_vars

-----------------------------------------------------------------------------
(* A game among a fixed list of players: the lobby after the joins, and no     *)
(* joinRoom or disconnect afterwards.  One round of turns is explored; the     *)
(* handlers of the two-player game are raced, those of the larger one run      *)
(* one at a time.                                                              *)

Lobby(ids) ==
    [i \in DOMAIN ids |-> NewPlayer(ids[i], i = 1)]

InitTurn ==
    /\ \E rounds \in 1..MaxRoundsSetting, dt \in DrawTimes, ids \in FixedLists :
          /\ db = [NewRoom(rounds, dt) EXCEPT !.players = Lobby(ids)]
          /\ inRoom = SeqToSet(ids)
          /\ obs = [NoObs EXCEPT
                      !.lim = [events |-> MaxEvents,
                               races |-> IF ids = RacedList THEN MaxRaces ELSE 0,
                               turns |-> Len(ids)]]
    /\ procs = {}
    /\ roomIntervals = 0
    /\ ivals = {}
    /\ wordSelectionTimeouts = 0
    /\ wsts = {}
    /\ inters = {}
    /\ endTurnInProgress = FALSE
    /\ gone = {}
    /\ pf = [endsAt |-> 0, now |-> 0, t |-> 0, points |-> 0, drawTime |-> 0, done |-> FALSE]

NextTurn ==
    \/ \E s \in inRoom, g \in Words : GuessEvent(s, g)
    \/ \E p \in procs : GuessLoaded(p)
    \/ \E p \in procs : GuessSaved(p)
    \/ \E t \in ivals : TickFire(t)
    \/ \E p \in procs : TickLoaded(p)
    \/ \E p \in procs : TickHinted(p)
    \/ \E p \in procs : EndTurnLoaded(p)
    \/ \E p \in procs : EndTurnSavedOver(p)
    \/ \E p \in procs : EndTurnSaved(p)
    \/ \E p \in procs : EndTurnReloaded(p)
    \/ \E i \in inters : IntermissionFire(i)
    \/ \E p \in procs : IntermissionLoaded(p)
    \/ \E w \in wsts : WordTimeoutFire(w)
    \/ \E p \in procs : AutoSelectLoaded(p)
    \/ \E p \in procs : AutoSelectSaved(p)
    \/ \E s \in inRoom, w \in Words : WordSelectedEvent(s, w)
    \/ \E p \in procs : WordSelectedLoaded(p)
    \/ \E p \in procs : WordSelectedSaved(p)
    \/ \E s \in inRoom : StartGameEvent(s)
    \/ \E p \in procs : StartGameLoaded(p)
    \/ \E p \in procs : StartGameSaved(p)
    \/ \E d \in ClockSteps : Advance(d)

SpecTurn == InitTurn /\ [][NextTurn]_vars

\* Fair scheduling: a timer that is due fires, the store answers every request
\* and the handler waiting for it goes on, and time passes.  The clients owe
\* nothing: no fairness for the events they send.
TimerFires ==
    \/ \E t \in ivals : TickFire(t)
    \/ \E i \in inters : IntermissionFire(i)
    \/ \E w \in wsts : WordTimeoutFire(w)

StoreAnswers ==
    \E p \in procs :
        \/ GuessLoaded(p) \/ GuessSaved(p)
        \/ TickLoaded(p) \/ TickHinted(p)
        \/ EndTurnLoaded(p) \/ EndTurnSavedOver(p) \/ EndTurnSaved(p)
        \/ EndTurnReloaded(p)
        \/ IntermissionLoaded(p)
        \/ AutoSelectLoaded(p) \/ AutoSelectSaved(p)
        \/ WordSelectedLoaded(p) \/ WordSelectedSaved(p)
        \/ StartGameLoaded(p) \/ StartGameSaved(p)

FairTurn ==
    /\ WF_vars(TimerFires)
    /\ WF_vars(StoreAnswers)
    /\ WF_vars(\E d \in ClockSteps : Advance(d))

SpecTurnFair == SpecTurn /\ FairTurn

-----------------------------------------------------------------------------
(* Games played one after the other in a room of two, with the host changing   *)
(* the settings between them.  No handler or callback starts while another is  *)
(* suspended, so that no save is rejected and endTurn never retries.           *)

InitGames ==
    /\ \E rounds \in 1..MaxGameRounds, dt \in DrawTimes :
          /\ db = [NewRoom(rounds, dt) EXCEPT !.players = Lobby(RacedList)]
          /\ inRoom = SeqToSet(RacedList)
          /\ obs = [NoObs EXCEPT !.lim = [races |-> 0, turns |-> MaxGameTurns,
                                          events |-> MaxEvents]]
    /\ procs = {}
    /\ roomIntervals = 0
    /\ ivals = {}
    /\ wordSelectionTimeouts = 0
    /\ wsts = {}
    /\ inters = {}
    /\ endTurnInProgress = FALSE
    /\ gone = {}
    /\ pf = [endsAt |-> 0, now |-> 0, t |-> 0, points |-> 0, drawTime |-> 0, done |-> FALSE]

NextGames ==
    \/ \E s \in inRoom, g \in Words : GuessEvent(s, g)
    \/ \E p \in procs : GuessLoaded(p)
    \/ \E p \in procs : GuessSaved(p)
    \/ \E t \in ivals : TickFire(t)
    \/ \E p \in procs : TickLoaded(p)
    \/ \E p \in procs : TickHinted(p)
    \/ \E p \in procs : EndTurnLoaded(p)
    \/ \E p \in procs : EndTurnSavedOver(p)
    \/ \E p \in procs : EndTurnSaved(p)
    \/ \E i \in inters : IntermissionFire(i)
    \/ \E p \in procs : IntermissionLoaded(p)
    \/ \E w \in wsts : WordTimeoutFire(w)
    \/ \E p \in procs : AutoSelectLoaded(p)
    \/ \E p \in procs : AutoSelectSaved(p)
    \/ \E s \in inRoom, w \in Words : WordSelectedEvent(s, w)
    \/ \E p \in procs : WordSelectedLoaded(p)
    \/ \E p \in procs : WordSelectedSaved(p)
    \/ \E s \in inRoom : StartGameEvent(s)
    \/ \E p \in procs : StartGameLoaded(p)
    \/ \E p \in procs : StartGameSaved(p)
    \/ \E s \in inRoom, rounds \in 0..MaxGameRounds, dt \in DrawTimes :
          UpdateSettingsEvent(s, rounds, dt)
    \/ \E p \in procs : UpdateSettingsLoaded(p)
    \/ \E p \in procs : UpdateSettingsSaved(p)
    \/ \E d \in ClockSteps : Advance(d)

SpecGames == InitGames /\ [][NextGames]_vars

-----------------------------------------------------------------------------
(* The events a handler refuses for want of authority.  Such a handler loads   *)
(* the room, answers and returns: it has one step.                             *)

Refused(k, errors) ==
    [obs EXCEPT !.events = obs.events + 1,
                !.refused = [k |-> k, errors |-> errors]]

\* startGame, lines 701-705: the sender is not players[0]; one error event
StartGameRefused(s) ==
    /\ s \in Connected
    /\ AdmitEvent
    /\ db.exists
    /\ (~hasPlayers(db) \/ db.players[1].id # s)
    /\ obs' = Refused("startGame", 1)
    /\ UNCHANGED <<db, procs, roomIntervals, ivals, wordSelectionTimeouts, wsts,
                   inters, endTurnInProgress, inRoom, gone, pf>>

\* updateSettings, lines 573-577: the sender is not players[0]; one error event
UpdateSettingsRefused(s) ==
    /\ s \in Connected
    /\ AdmitEvent
    /\ db.exists
    /\ (~hasPlayers(db) \/ db.players[1].id # s)
    /\ obs' = Refused("updateSettings", 1)
    /\ UNCHANGED <<db, procs, roomIntervals, ivals, wordSelectionTimeouts, wsts,
                   inters, endTurnInProgress, inRoom, gone, pf>>

\* wordSelected, lines 669-670: the sender is not the drawer; a bare return
WordSelectedRefused(s) ==
    /\ s \in Connected
    /\ AdmitEvent
    /\ db.exists /\ db.gameStarted
    /\ getDrawerId(db) # s
    /\ obs' = Refused("wordSelected", 0)
    /\ UNCHANGED <<db, procs, roomIntervals, ivals, wordSelectionTimeouts, wsts,
                   inters, endTurnInProgress, inRoom, gone, pf>>

\* the games of SpecGames with the refused events among the clients' events
NextAuth ==
    \/ NextGames
    \/ \E s \in inRoom : StartGameRefused(s)
    \/ \E s \in inRoom : UpdateSettingsRefused(s)
    \/ \E s \in inRoom : WordSelectedRefused(s)

SpecAuth == InitGames /\ [][NextAuth]_vars

-----------------------------------------------------------------------------
(* The settings of a lobby of two under payloads whose numbers lie on either   *)
(* side of the documented ranges.                                              *)

MaxSettingsEvents == 2

RoundsSent == {0 - 1, 0, MAX_ROUNDS + 1}
DrawTimesSent == {MIN_DRAW_TIME - 1, MAX_DRAW_TIME + 1}
WordCountsSent == {MIN_WORD_COUNT - 1, MAX_WORD_COUNT + 1}
MaxPlayersSent == {MIN_MAX_PLAYERS - 1, MAX_MAX_PLAYERS + 1}
ProbabilitiesSent == {MIN_PROBABILITY - 1, MAX_PROBABILITY + 1}

InitSettings ==
    /\ db = [NewRoom(DEFAULT_MAX_ROUNDS, DEFAULT_DRAW_TIME)
               EXCEPT !.players = Lobby(RacedList)]
    /\ inRoom = SeqToSet(RacedList)
    /\ obs = [NoObs EXCEPT !.lim = [races |-> 0, turns |-> 0,
                                    events |-> MaxSettingsEvents]]
    /\ procs = {}
    /\ roomIntervals = 0
    /\ ivals = {}
    /\ wordSelectionTimeouts = 0
    /\ wsts = {}
    /\ inters = {}
    /\ endTurnInProgress = FALSE
    /\ gone = {}
    /\ pf = [endsAt |-> 0, now |-> 0, t |-> 0, points |-> 0, drawTime |-> 0, done |-> FALSE]

NextSettings ==
    \/ \E s \in inRoom, rounds \in RoundsSent, dt \in DrawTimesSent,
          wc \in WordCountsSent, mp \in MaxPlayersSent, prob \in ProbabilitiesSent :
          UpdateSettingsSent(s, rounds, dt, wc, mp, prob)
    \/ \E p \in procs : UpdateSettingsLoaded(p)
    \/ \E p \in procs : UpdateSettingsSaved(p)

SpecSettings == InitSettings /\ [][NextSettings]_vars

-----------------------------------------------------------------------------
(* The lobby of a new room: players join, also two at a time, and the host     *)
(* sets the capacity of the room.                                              *)

CapacitiesSent == {MIN_MAX_PLAYERS}

InitJoin ==
    /\ db = NewRoom(DEFAULT_MAX_ROUNDS, DEFAULT_DRAW_TIME)
    /\ inRoom = {Host}
    /\ obs = NoObs
    /\ procs = {}
    /\ roomIntervals = 0
    /\ ivals = {}
    /\ wordSelectionTimeouts = 0
    /\ wsts = {}
    /\ inters = {}
    /\ endTurnInProgress = FALSE
    /\ gone = {}
    /\ pf = [endsAt |-> 0, now |-> 0, t |-> 0, points |-> 0, drawTime |-> 0, done |-> FALSE]

NextJoin ==
    \/ \E s \in Sockets : JoinEvent(s)
    \/ \E p \in procs : JoinLoaded(p)
    \/ \E p \in procs : JoinSaved(p)
    \/ \E s \in inRoom, mp \in CapacitiesSent : UpdateSettingsSent(s, 0, 0, 0, mp, 0)
    \/ \E p \in procs : UpdateSettingsLoaded(p)
    \/ \E p \in procs : UpdateSettingsSaved(p)

SpecJoin == InitJoin /\ [][NextJoin]_vars

-----------------------------------------------------------------------------
(* One DRAWING phase with both hint times ahead, in a room of three: the draw  *)
(* time is above twice the second hint time and the clock moves in steps that  *)
(* stop at both hint times.  The turn's end arms the intermission, which is    *)
(* not followed further.                                                       *)

HintDrawTimes == {DEFAULT_DRAW_TIME}
HintList == <<"a", "b", "c">>

InitHints ==
    /\ \E dt \in HintDrawTimes :
          /\ db = [NewRoom(DEFAULT_MAX_ROUNDS, dt) EXCEPT !.players = Lobby(HintList)]
          /\ inRoom = SeqToSet(HintList)
          /\ obs = [NoObs EXCEPT !.lim = [races |-> MaxRaces, turns |-> 1,
                                          events |-> MaxHintEvents]]
    /\ procs = {}
    /\ roomIntervals = 0
    /\ ivals = {}
    /\ wordSelectionTimeouts = 0
    /\ wsts = {}
    /\ inters = {}
    /\ endTurnInProgress = FALSE
    /\ gone = {}
    /\ pf = [endsAt |-> 0, now |-> 0, t |-> 0, points |-> 0, drawTime |-> 0, done |-> FALSE]

NextHints ==
    \/ \E s \in inRoom, g \in Words : GuessEvent(s, g)
    \/ \E p \in procs : GuessLoaded(p)
    \/ \E p \in procs : GuessSaved(p)
    \/ \E t \in ivals : TickFire(t)
    \/ \E p \in procs : TickLoaded(p)
    \/ \E p \in procs : TickHinted(p)
    \/ \E p \in procs : EndTurnLoaded(p)
    \/ \E p \in procs : EndTurnSaved(p)
    \/ \E p \in procs : EndTurnReloaded(p)
    \/ \E w \in wsts : WordTimeoutFire(w)
    \/ \E p \in procs : AutoSelectLoaded(p)
    \/ \E p \in procs : AutoSelectSaved(p)
    \/ \E s \in inRoom, w \in Words : WordSelectedEvent(s, w)
    \/ \E p \in procs : WordSelectedLoaded(p)
    \/ \E p \in procs : WordSelectedSaved(p)
    \/ \E s \in inRoom : StartGameEvent(s)
    \/ \E p \in procs : StartGameLoaded(p)
    \/ \E p \in procs : StartGameSaved(p)
    \/ \E d \in ClockSteps : Advance(d)

SpecHints == InitHints /\ [][NextHints]_vars

-----------------------------------------------------------------------------
(* The scoring of one correct guess on its own (index.ts 784-787, 129-136).   *)
(* The DRAWING phase began at instant 0, where wordSelected set turnEndsAt to  *)
(* drawTime seconds from then (line 682); the guess is handled at the instant  *)
(* now.  Instants are in milliseconds.                                         *)

ScoredDrawTimes == {MIN_DRAW_TIME, TURN_SECONDS, 2 * TURN_SECONDS, MAX_DRAW_TIME}

Instants(drawTime) ==
    {k * InstantStep : k \in 0..((drawTime * MS_PER_SECOND) \div InstantStep + 2)}

InitPoints ==
    /\ procs = {}
    /\ roomIntervals = 0
    /\ ivals = {}
    /\ wordSelectionTimeouts = 0
    /\ wsts = {}
    /\ inters = {}
    /\ endTurnInProgress = FALSE
    /\ inRoom = {Host}
    /\ gone = {}
    /\ obs = NoObs
    /\ \E dt \in ScoredDrawTimes : \E now \in Instants(dt) :
          /\ db = NewRoom(1, dt)
          /\ pf = [endsAt |-> dt * MS_PER_SECOND, now |-> now, t |-> 0,
                   points |-> 0,
                   drawTime |-> dt, done |-> FALSE]

\* lines 785-787 of the guess handler
CreditGuess ==
    /\ ~pf.done
    /\ LET timeRemaining == SecondsLeft(pf.endsAt, pf.now)
           points == calculatePoints(timeRemaining, TURN_SECONDS)
       IN  pf' = [pf EXCEPT !.t = timeRemaining, !.points = points, !.done = TRUE]
    /\ UNCHANGED <<db, procs, roomIntervals, ivals, wordSelectionTimeouts, wsts, inters,
                   endTurnInProgress, inRoom, gone, obs>>

NextPoints == CreditGuess

SpecPoints == InitPoints /\ [][NextPoints]_vars

-----------------------------------------------------------------------------
(* Text.  A string is the sequence of its characters.  The characters of the   *)
(* model are lower-case letters, the capitals of LowerCase, the space (the     *)
(* only whitespace) and the asterisk.                                          *)

MAX_MESSAGE_LENGTH == 200
MAX_REPEATS == 10

Whitespace == {" "}

LowerCase == ("C" :> "c") @@ ("I" :> "i")

\* String.prototype.toLowerCase
toLowerCase(s) == [i \in DOMAIN s |-> IF s[i] \in DOMAIN LowerCase THEN LowerCase[s[i]]
                                      ELSE s[i]]

RECURSIVE trimStart(_)
trimStart(s) ==
    IF s # <<>> /\ Head(s) \in Whitespace THEN trimStart(Tail(s)) ELSE s

RECURSIVE trimEnd(_)
trimEnd(s) ==
    IF s # <<>> /\ s[Len(s)] \in Whitespace THEN trimEnd(SubSeq(s, 1, Len(s) - 1)) ELSE s

\* String.prototype.trim
trim(s) == trimEnd(trimStart(s))

\* s.replace(/\s+/g, '')
RECURSIVE stripWhitespace(_)
stripWhitespace(s) ==
    IF s = <<>> THEN <<>>
    ELSE IF Head(s) \in Whitespace THEN stripWhitespace(Tail(s))
    ELSE <<Head(s)>> \o stripWhitespace(Tail(s))

\* \w of a regular expression, on the characters of the model
IsWordChar(c) == c \notin Whitespace \cup {"*"}

\* w occurs in s at position i
Occurs(w, s, i) == i + Len(w) - 1 <= Len(s) /\ SubSeq(s, i, i + Len(w) - 1) = w

\* String.prototype.includes
includes(s, w) == \E i \in 1..Len(s) : Occurs(w, s, i)

\* /\bw\b/ matches s at position i, for a word w of letters
MatchesWord(w, s, i) ==
    /\ Occurs(w, s, i)
    /\ i = 1 \/ ~IsWordChar(s[i - 1])
    /\ i + Len(w) > Len(s) \/ ~IsWordChar(s[i + Len(w)])

\* the entries of PROFANITY_LIST that the characters of the model can spell
PROFANITY_LIST == << <<"d", "i", "e">> >>

\* containsProfanity(message)
containsProfanity(message) ==
    LET lowerMessage == toLowerCase(message) IN
    \E k \in DOMAIN PROFANITY_LIST :
        \/ \E i \in 1..Len(lowerMessage) : MatchesWord(PROFANITY_LIST[k], lowerMessage, i)
        \/ includes(lowerMessage, PROFANITY_LIST[k])

\* filtered.replace(regex, match => '*'.repeat(match.length)) with the flags gi
Starred(s, w) ==
    [i \in DOMAIN s |->
        IF \E j \in 1..i : MatchesWord(w, toLowerCase(s), j) /\ i < j + Len(w)
        THEN "*" ELSE s[i]]

\* filterProfanity(message)
RECURSIVE filterFrom(_, _)
filterFrom(k, filtered) ==
    IF k > Len(PROFANITY_LIST) THEN filtered
    ELSE filterFrom(k + 1, Starred(filtered, PROFANITY_LIST[k]))

filterProfanity(message) == filterFrom(1, message)

\* /(.)\1{10,}/.test(s): a character followed by MAX_REPEATS copies of itself
HasRun(s) ==
    \E i \in 1..Len(s) :
        /\ i + MAX_REPEATS <= Len(s)
        /\ \A j \in i..(i + MAX_REPEATS) : s[j] = s[i]

\* null, which the handlers test with `!cleaned` as they would the empty string
Null == <<>>

\* validateMessage(message)
validateMessage(message) ==
    LET trimmed == trim(message) IN
    IF Len(trimmed) = 0 THEN Null
    ELSE IF Len(trimmed) > MAX_MESSAGE_LENGTH THEN Null
    ELSE IF HasRun(trimmed) THEN Null
    ELSE IF containsProfanity(trimmed) THEN filterProfanity(trimmed)
    ELSE trimmed

-----------------------------------------------------------------------------
(* socket.on('chat') (index.ts 741-756) *)

\* the event arrives and Room.findOne runs; the handler returns when there is no
\* room or the message is blank (line 743), and answers with an error event when
\* validateMessage blocks the message (745-749)
ChatEvent(s, msg) ==
    /\ s \in Connected
    /\ AdmitEvent
    /\ IF db.exists /\ validateMessage(msg) # Null
       THEN /\ procs' = Spawn(procs, Proc("chat", "loaded", s, db, FALSE,
                                          [NoX EXCEPT !.guessers = validateMessage(msg)]))
            /\ obs' = Sent(TRUE)
       ELSE /\ obs' = Sent(FALSE)
            /\ UNCHANGED procs
    /\ UNCHANGED <<db, roomIntervals, ivals, wordSelectionTimeouts, wsts, inters,
                   endTurnInProgress, inRoom, gone, pf>>

\* lines 751-752: room.chat.push({id, name, msg: cleanedMsg, ts}) and room.save()
ChatLoaded(p) ==
    /\ p \in procs /\ p.k = "chat" /\ p.pc = "loaded"
    /\ LET room == p.doc
           entry == [id |-> p.s, msg |-> p.x.guessers]
           r1 == [room EXCEPT !.chat = Append(room.chat, entry)]
           dl == [NoDelta EXCEPT !.pushC = <<entry>>]
           res == SaveResult(p.stale, "inc")
       IN  /\ db' = Saved(res, r1, dl)
           /\ procs' = Overtaken(res, "inc", procs \ {p}) \cup
                  {Proc("chat", "saved", p.s, r1, p.stale, [p.x EXCEPT !.res = res])}
    /\ UNCHANGED <<roomIntervals, ivals, wordSelectionTimeouts, wsts, inters,
                   endTurnInProgress, inRoom, gone, obs, pf>>

\* line 753: the broadcast of the chat event, unless the save has thrown
ChatSaved(p) ==
    /\ p \in procs /\ p.k = "chat" /\ p.pc = "saved"
    /\ procs' = procs \ {p}
    /\ UNCHANGED <<db, roomIntervals, ivals, wordSelectionTimeouts, wsts, inters,
                   endTurnInProgress, inRoom, gone, obs, pf>>

-----------------------------------------------------------------------------
(* The chat of a lobby: the players send messages, one of them blank.          *)

MaxChatEvents == 51

ChatMessages == {<<"h", "i">>, <<" ">>}

InitChat ==
    /\ db = [NewRoom(DEFAULT_MAX_ROUNDS, DEFAULT_DRAW_TIME) EXCEPT !.players = Lobby(RacedList)]
    /\ inRoom = SeqToSet(RacedList)
    /\ obs = [NoObs EXCEPT !.lim = [races |-> MaxRaces, turns |-> 0,
                                    events |-> MaxChatEvents]]
    /\ procs = {}
    /\ roomIntervals = 0
    /\ ivals = {}
    /\ wordSelectionTimeouts = 0
    /\ wsts = {}
    /\ inters = {}
    /\ endTurnInProgress = FALSE
    /\ gone = {}
    /\ pf = [endsAt |-> 0, now |-> 0, t |-> 0, points |-> 0, drawTime |-> 0, done |-> FALSE]

NextChat ==
    \/ \E msg \in ChatMessages : ChatEvent(Host, msg)
    \/ \E p \in procs : ChatLoaded(p)
    \/ \E p \in procs : ChatSaved(p)

SpecChat == InitChat /\ [][NextChat]_vars

-----------------------------------------------------------------------------
(* The evaluation of a guess (index.ts 758-826), on words and guesses spelt    *)
(* out character by character.                                                 *)

Min3(a, b, c) == Min(a, Min(b, c))

\* an edit distance in which a substitution costs an insertion and a deletion
getEditDistanceIndel(str1, str2) ==
    LET len1 == Len(str1)
        len2 == Len(str2)
        matrix[i \in 0..len1, j \in 0..len2] ==
            IF i = 0 THEN j
            ELSE IF j = 0 THEN i
            ELSE IF str1[i] = str2[j] THEN matrix[i - 1, j - 1]
            ELSE Min(matrix[i, j - 1] + 1, matrix[i - 1, j] + 1)
    IN  matrix[len1, len2]

\* getEditDistance(str1, str2) (index.ts 93-127): the matrix filled row by row
getEditDistance(str1, str2) ==
    LET len1 == Len(str1)
        len2 == Len(str2)
        matrix[i \in 0..len1, j \in 0..len2] ==
            IF i = 0 THEN j
            ELSE IF j = 0 THEN i
            ELSE IF str1[i] = str2[j] THEN matrix[i - 1, j - 1]
            ELSE LET sub == matrix[i - 1, j - 1]
                     ins == matrix[i, j - 1]
                     del == matrix[i - 1, j]
                 IN  Min3(sub + 1, ins + 1, del + 1)
    IN  matrix[len1, len2]

\* customWordsStr.split(',')
RECURSIVE split(_, _)
split(str, piece) ==
    IF str = <<>> THEN <<piece>>
    ELSE IF Head(str) = "," THEN <<piece>> \o split(Tail(str), <<>>)
    ELSE split(Tail(str), Append(piece, Head(str)))

\* lines 591-595 of updateSettings: the custom words kept from settings.customWords
customWords(customWordsStr) ==
    LET pieces == split(customWordsStr, <<>>)
        mapped == [i \in DOMAIN pieces |-> toLowerCase(trim(pieces[i]))]
    IN  SelectSeq(mapped, LAMBDA w : Len(w) > 0)

\* settings.customWords as the host sends it: "Ice cream, ox,"
CustomWordsSent ==
    <<"I", "c", "e", " ", "c", "r", "e", "a", "m", ",", " ", "o", "x", ",">>

\* words of the server dictionary
DictionaryWords == {<<"c", "a", "t">>}

\* the words selectWords can offer (index.ts 298-330)
WordsInPlay == DictionaryWords \cup SeqToSet(customWords(CustomWordsSent))

GuessesSent ==
    {<<"c", "a", "t">>, <<" ", "C", "a", "t", " ">>, <<"c", " ", "a", "t">>,
     <<"c", "o", "t">>, <<"a", "t">>, <<"c", "a", "r", "t">>, <<"a", "c", "t">>,
     <<"i", "c", "e", " ", "c", "r", "e", "a", "m">>,
     <<"i", "c", "e", "c", "r", "e", "a", "m">>,
     <<"o", "x">>, <<"a", "x">>, <<"d", "i", "e">>, <<" ">>}

NoHeard == [guess |-> <<>>, by |-> "-", cleaned |-> <<>>, g |-> <<>>, out |-> "none",
            close |-> FALSE, chat |-> <<>>]

\* the guess event arrives and Room.findOne runs; lines 760-780 and 811-825 run on
\* the loaded document, which is the stored one at that instant.  A matching guess
\* of a player who may score goes on to the credit (GuessLoaded).  pf records what
\* the handler made of the guess: `out`, whether closeGuess was sent to the sender
\* (close) and the msg of the chat event broadcast to the room (chat, Null if none)
GuessSent(s, guess) ==
    /\ s \in Connected
    /\ AdmitEvent
    /\ LET room == db
           cleanedGuess == validateMessage(guess)
           g == stripWhitespace(toLowerCase(trim(cleanedGuess)))
           ans == toLowerCase(room.currentWord)
           isDrawer == s = getDrawerId(room)
           already == s \in SeqToSet(room.correctGuessers)
           distance == getEditDistance(g, ans)
           heard == [NoHeard EXCEPT !.guess = guess, !.by = s,
                                    !.cleaned = cleanedGuess, !.g = g]
       IN  IF ~room.exists \/ Len(room.currentWord) = 0 \/ ~room.gameStarted
           THEN /\ pf' = [heard EXCEPT !.out = "dropped"]
                /\ obs' = Sent(FALSE)
                /\ UNCHANGED procs
           ELSE IF cleanedGuess = Null
           THEN /\ pf' = [heard EXCEPT !.out = "blocked"]
                /\ obs' = Sent(FALSE)
                /\ UNCHANGED procs
           ELSE IF g = <<>>
           THEN /\ pf' = [heard EXCEPT !.out = "dropped"]
                /\ obs' = Sent(FALSE)
                /\ UNCHANGED procs
           ELSE IF g = ans
           THEN IF isDrawer \/ already
                THEN /\ pf' = [heard EXCEPT !.out = "ignored"]
                     /\ obs' = Sent(FALSE)
                     /\ UNCHANGED procs
                ELSE /\ pf' = [heard EXCEPT !.out = "match"]
                     /\ obs' = Sent(TRUE)
                     /\ procs' = Spawn(procs, Proc("guess", "loaded", s, room, FALSE,
                                                   [NoX EXCEPT !.word = room.currentWord]))
           ELSE /\ pf' = [heard EXCEPT !.out = "wrong",
                                       !.close = (Len(ans) >= 3 /\ distance = 1),
                                       !.chat = cleanedGuess]
                /\ obs' = Sent(FALSE)
                /\ UNCHANGED procs
    /\ UNCHANGED <<db, roomIntervals, ivals, wordSelectionTimeouts, wsts, inters,
                   endTurnInProgress, inRoom, gone>>

(* A DRAWING phase in a room of three: the word is one that selectWords can    *)
(* offer, and the drawer and one other player send guesses.                    *)

MaxGuessEvents == 2

Guessers == {"a", "b"}

InitGuess ==
    /\ \E w \in WordsInPlay :
          db = [NewRoom(DEFAULT_MAX_ROUNDS, DEFAULT_DRAW_TIME) EXCEPT
                  !.players = Lobby(<<"a", "b", "c">>),
                  !.gameStarted = TRUE,
                  !.currentWord = w,
                  !.turnEndsAt = DEFAULT_DRAW_TIME]
    /\ inRoom = Sockets
    /\ obs = [NoObs EXCEPT !.lim = [races |-> MaxRaces, turns |-> 1,
                                    events |-> MaxGuessEvents],
                           !.phase = "DRAWING", !.turn = 1, !.selects = 1,
                           !.by = {"wordSelected"},
                           !.drawers = <<"a">>, !.rounds = <<1>>]
    /\ procs = {}
    /\ roomIntervals = 1
    /\ ivals = {[id |-> 1, live |-> TRUE, due |-> FALSE, first |-> FALSE,
                 second |-> FALSE, half |-> DEFAULT_DRAW_TIME \div 2]}
    /\ wordSelectionTimeouts = 0
    /\ wsts = {}
    /\ inters = {}
    /\ endTurnInProgress = FALSE
    /\ gone = {}
    /\ pf = NoHeard

NextGuess ==
    \/ \E s \in Guessers, guess \in GuessesSent : GuessSent(s, guess)
    \/ \E p \in procs : GuessLoaded(p)
    \/ \E p \in procs : GuessSaved(p)

SpecGuess == InitGuess /\ [][NextGuess]_vars

-----------------------------------------------------------------------------
(* A player who comes back.  The room is the one left by a game of one round   *)
(* between a and b, each holding the points of one guess made as the drawing   *)
(* began and of one drawer bonus.  Player b's connection drops and the player  *)
(* joins the room again, under the same name, on a new connection: a           *)
(* connection has its own socket.id, here c.  The host stays, so the room is   *)
(* never emptied.  pf holds the score of the player before the drop.           *)

Returning == [old |-> "b", new |-> "c"]

ReconnectDrawTimes == {MIN_DRAW_TIME, DEFAULT_DRAW_TIME}

InitReconnect ==
    /\ \E dt \in ReconnectDrawTimes :
          LET points == calculatePoints(dt, TURN_SECONDS)
              score == points + DRAWER_BONUS_PER_GUESSER
          IN  db = [NewRoom(MaxRoundsSetting, dt) EXCEPT
                      !.players = << [id |-> "a", score |-> score, isDrawer |-> FALSE],
                                     [id |-> "b", score |-> score, isDrawer |-> TRUE] >>,
                      !.round = 2,
                      !.turnEndsAt = dt,
                      !.roundPoints = [NoPoints EXCEPT
                                         !["a"] = points,
                                         !["b"] = DRAWER_BONUS_PER_GUESSER]]
    /\ inRoom = {"a", "b"}
    /\ obs = [NoObs EXCEPT !.phase = "GAMEOVER", !.turn = 2]
    /\ procs = {}
    /\ roomIntervals = 0
    /\ ivals = {}
    /\ wordSelectionTimeouts = 0
    /\ wsts = {}
    /\ inters = {}
    /\ endTurnInProgress = FALSE
    /\ gone = {}
    /\ pf = [held |-> db.players[IndexOf(db, Returning.old)].score]

NextReconnect ==
    \/ \E s \in {Returning.old, Returning.new} : DisconnectEvent(s)
    \/ \E p \in procs : DisconnectLoaded(p)
    \/ \E p \in procs : DisconnectSaved(p)
    \/ Returning.old \in gone /\ JoinEvent(Returning.new)
    \/ \E p \in procs : JoinLoaded(p)
    \/ \E p \in procs : JoinSaved(p)

SpecReconnect == InitReconnect /\ [][NextReconnect]_vars

-----------------------------------------------------------------------------
(* An idle room.  The host has created the room and sends nothing more; the    *)
(* connection may drop at any time.  pf.idle is the age of lastActivity in     *)
(* minutes: the schema sets the field when the document is created and no      *)
(* handler writes it.  No timer of index.ts is armed in a lobby; the only      *)
(* Room.deleteOne is the one of the disconnect handler.                        *)

MaxIdleMinutes == 61

\* a minute passes
Idle ==
    /\ procs = {}
    /\ db.exists
    /\ pf.idle < MaxIdleMinutes
    /\ pf' = [pf EXCEPT !.idle = pf.idle + 1]
    /\ UNCHANGED <<db, procs, roomIntervals, ivals, wordSelectionTimeouts, wsts, inters,
                   endTurnInProgress, inRoom, gone, obs>>

InitIdle ==
    /\ db = NewRoom(DEFAULT_MAX_ROUNDS, DEFAULT_DRAW_TIME)
    /\ inRoom = {Host}
    /\ obs = NoObs
    /\ procs = {}
    /\ roomIntervals = 0
    /\ ivals = {}
    /\ wordSelectionTimeouts = 0
    /\ wsts = {}
    /\ inters = {}
    /\ endTurnInProgress = FALSE
    /\ gone = {}
    /\ pf = [idle |-> 0]

NextIdle ==
    \/ Idle
    \/ DisconnectEvent(Host)
    \/ \E p \in procs : DisconnectLoaded(p)
    \/ \E p \in procs : DisconnectSaved(p)
    \/ \E p \in procs : DisconnectDeleted(p)

\* time passes and the store answers; a client is free not to disconnect
FairIdle ==
    /\ WF_vars(Idle)
    /\ WF_vars(\E p \in procs : DisconnectLoaded(p) \/ DisconnectSaved(p)
                                   \/ DisconnectDeleted(p))

SpecIdle == InitIdle /\ [][NextIdle]_vars /\ FairIdle

-----------------------------------------------------------------------------
(* maskWord (index.ts 77-82) on its own: a word that can be in play and a set  *)
(* of revealed indices, counted from 0 as in the code.                         *)

\* Array.prototype.join(' ')
RECURSIVE join(_)
join(chars) ==
    IF Len(chars) <= 1 THEN chars
    ELSE <<Head(chars), " ">> \o join(Tail(chars))

\* a mask that shows no letter whatever has been revealed
maskWordBlank(word, revealedIndices) ==
    join([idx \in DOMAIN word |-> "_"])

\* maskWord(word, revealedIndices)
maskWord(word, revealedIndices) ==
    join([idx \in DOMAIN word |-> IF idx - 1 \in revealedIndices THEN word[idx] ELSE "_"])

InitMask ==
    /\ \E w \in WordsInPlay : \E revealed \in SUBSET (0..(Len(w) - 1)) :
          pf = [word |-> w, revealed |-> revealed, display |-> <<>>, done |-> FALSE]
    /\ db = NewRoom(DEFAULT_MAX_ROUNDS, DEFAULT_DRAW_TIME)
    /\ inRoom = {Host}
    /\ obs = NoObs
    /\ procs = {}
    /\ roomIntervals = 0
    /\ ivals = {}
    /\ wordSelectionTimeouts = 0
    /\ wsts = {}
    /\ inters = {}
    /\ endTurnInProgress = FALSE
    /\ gone = {}

\* const hint = maskWord(word, room.revealedLetters)
MaskApplied ==
    /\ ~pf.done
    /\ pf' = [pf EXCEPT !.display = maskWord(pf.word, pf.revealed), !.done = TRUE]
    /\ UNCHANGED <<db, procs, roomIntervals, ivals, wordSelectionTimeouts, wsts, inters,
                   endTurnInProgress, inRoom, gone, obs>>

SpecMask == InitMask /\ [][MaskApplied]_vars

-----------------------------------------------------------------------------
(* A game in a room of three that its players leave: the turns of SpecTurn,    *)
(* one handler at a time, and the disconnect of any player.                    *)

InitLeave ==
    /\ \E dt \in DrawTimes :
          db = [NewRoom(MaxRoundsSetting, dt) EXCEPT !.players = Lobby(<<"a", "b", "c">>)]
    /\ inRoom = Sockets
    /\ obs = [NoObs EXCEPT !.lim = [races |-> 0, turns |-> MaxTurns,
                                    events |-> MaxEvents]]
    /\ procs = {}
    /\ roomIntervals = 0
    /\ ivals = {}
    /\ wordSelectionTimeouts = 0
    /\ wsts = {}
    /\ inters = {}
    /\ endTurnInProgress = FALSE
    /\ gone = {}
    /\ pf = [endsAt |-> 0, now |-> 0, t |-> 0, points |-> 0, drawTime |-> 0, done |-> FALSE]

NextLeave ==
    \/ \E s \in inRoom, g \in Words : GuessEvent(s, g)
    \/ \E p \in procs : GuessLoaded(p)
    \/ \E p \in procs : GuessSaved(p)
    \/ \E t \in ivals : TickFire(t)
    \/ \E p \in procs : TickLoaded(p)
    \/ \E p \in procs : TickHinted(p)
    \/ \E p \in procs : EndTurnLoaded(p)
    \/ \E p \in procs : EndTurnSavedOver(p)
    \/ \E p \in procs : EndTurnSaved(p)
    \/ \E i \in inters : IntermissionFire(i)
    \/ \E p \in procs : IntermissionLoaded(p)
    \/ \E w \in wsts : WordTimeoutFire(w)
    \/ \E p \in procs : AutoSelectLoaded(p)
    \/ \E p \in procs : AutoSelectSaved(p)
    \/ \E s \in inRoom, w \in Words : WordSelectedEvent(s, w)
    \/ \E p \in procs : WordSelectedLoaded(p)
    \/ \E p \in procs : WordSelectedSaved(p)
    \/ \E s \in inRoom : StartGameEvent(s)
    \/ \E p \in procs : StartGameLoaded(p)
    \/ \E p \in procs : StartGameSaved(p)
    \/ \E d \in ClockSteps : Advance(d)
    \/ \E s \in inRoom : DisconnectEvent(s)
    \/ \E p \in procs : DisconnectLoaded(p)
    \/ \E p \in procs : DisconnectSaved(p)
    \/ \E p \in procs : DisconnectDeleted(p)

SpecLeave == InitLeave /\ [][NextLeave]_vars

-----------------------------------------------------------------------------
(* Games in which the drawer's client sends wordSelected with a word of its    *)
(* own: the payload of the event is whatever the client puts in it.            *)

WordsSent == {"dog"}

NextOffer ==
    \/ NextGames
    \/ \E s \in inRoom, w \in WordsSent : WordSelectedEvent(s, w)

SpecOffer == InitGames /\ [][NextOffer]_vars

-----------------------------------------------------------------------------
(* Properties *)

NoDuplicates(s) == \A i, j \in DOMAIN s : s[i] = s[j] => i = j

\* C1: the effects of the end of a turn (drawer bonus, turnEnded, rotation, round
\* increment, reset, gameOver) are applied and committed at most once per turn,
\* whatever the interleaving of the tick callbacks and the guess handlers.
EndOfTurnOnce == obs.commits <= 1

\* C2: no id appears twice in correctGuessers, and no player is credited more than
\* once in a turn, also when guess handlers of one connection interleave.
GuessersOnce ==
    /\ NoDuplicates(db.correctGuessers)
    /\ \A s \in Sockets : obs.credits[s] <= 1

\* C3: the persisted correctGuessers never holds the id of the current drawer,
\* players[drawerIndex].
DrawerNeverGuesser ==
    hasPlayers(db) => getDrawerId(db) \notin SeqToSet(db.correctGuessers)

\* C4: in every persisted state drawerIndex is an index of players when there are
\* players, and 0 when there are none.
DrawerIndexInRange ==
    db.exists =>
        IF Len(db.players) > 0
        THEN 0 <= db.drawerIndex /\ db.drawerIndex < Len(db.players)
        ELSE db.drawerIndex = 0

\* C5: when the end of a turn is committed, the persisted roundPoints add up to
\* the increase of the persisted scores during the turn (the points of the
\* guessers plus the drawer bonus), also when the save was retried.
RoundPointsAddUp ==
    obs.commits >= 1 => obs.settled.rp = obs.settled.inc

PointsInRange ==
    (pf.done /\ pf.drawTime \in MIN_DRAW_TIME..MAX_DRAW_TIME /\ pf.now <= pf.endsAt) =>
        MIN_POINTS <= pf.points /\ pf.points <= MAX_POINTS

\* C8: within one turn a later credit is never higher than an earlier one,
\* whatever happens between the two.
CreditsNeverRise == ~obs.raised

\* C9: in a game among a fixed list of N players, the k-th turn is drawn by
\* players[k], each player drawing once in the N turns, and the round is
\* incremented once: it keeps its first value until the end of the N-th turn is
\* committed, and is one more from then on.
RotationInOrder ==
    LET N == Len(db.players) IN
    /\ Len(obs.drawers) <= N
    /\ \A k \in DOMAIN obs.drawers :
          obs.drawers[k] = db.players[k].id /\ obs.rounds[k] = 1
    /\ (obs.turn < N \/ obs.commits = 0) => db.round = 1
    /\ (obs.turn = N /\ obs.commits = 1) => db.round = 2

\* the end of the third turn of a game of three is committed
RotationDone ==
    /\ obs.drawers = <<"a", "b", "c">>
    /\ obs.commits = 1 /\ db.round = 2 /\ db.drawerIndex = 0

\* gameOver was emitted and the room is committed as a finished game
GameOverReached ==
    /\ obs.overs >= 1
    /\ ~db.gameStarted /\ db.currentWord = NoWord /\ db.correctGuessers = <<>>

\* C10: under fair timers and a store that answers, every started game reaches
\* game over: gameOver is emitted and the room is committed with
\* gameStarted = false, no currentWord and no correctGuessers.
GameEnds == (obs.turn >= 1) ~> GameOverReached

\* C11: in every persisted state of a room the round is at most maxRounds + 1,
\* whatever turns, games and settings updates have come before.
RoundWithinMax == db.exists => db.round <= db.maxRounds + 1

\* C12: currentWord is set exactly while the engine is in DRAWING; it is unset in
\* LOBBY, CHOOSING, INTERMISSION and GAMEOVER.  Stated for the states in which no
\* handler is suspended between its save and its next step.
WordIffDrawing ==
    (db.exists /\ procs = {}) =>
        ((db.currentWord # NoWord) <=> obs.phase = "DRAWING")

\* C13: while the room is CHOOSING or DRAWING exactly one player has isDrawer set,
\* and it is players[drawerIndex]; in LOBBY, INTERMISSION and GAMEOVER no player
\* has it set.
OneDrawerFlag ==
    db.exists =>
        LET flagged == {i \in DOMAIN db.players : db.players[i].isDrawer} IN
        IF obs.phase \in {"CHOOSING", "DRAWING"}
        THEN flagged = {db.drawerIndex + 1}
        ELSE flagged = {}

\* C14: turnEnded is emitted for a DRAWING phase only when its deadline has been
\* reached or every connected player other than the drawer has guessed.
EndsOnlyWhenDue == ~obs.early

\* C15: after a rejected save of a tick or of endTurn in DRAWING the engine of a
\* game that has not announced its end is still alive: when every handler has
\* returned, a tick interval runs or a timeout that starts the next step is
\* pending.
EngineKept ==
    (obs.failed /\ procs = {} /\ db.exists /\ db.gameStarted
        /\ obs.phase # "GAMEOVER") =>
        \/ \E t \in ivals : t.live
        \/ inters # {}
        \/ wsts # {}

\* C16: at every moment at most one tick interval of the room is active (created
\* by setInterval and not yet cleared).
OneInterval ==
    Cardinality({t \in ivals : t.live}) <= 1

\* C17: in one turn the drawer's wordSelected and the auto-select timeout do not
\* both take effect: before the turn's end startDrawingPhase is not run by both.
OneSelection ==
    Cardinality(obs.by) <= 1

\* C18: once the room is deleted and the disconnect handler that deleted it has
\* returned, no tick interval and no word-selection timeout of the room is
\* active and its end-turn flag is not set.
NothingAfterDelete ==
    (~db.exists /\ ~(\E p \in procs : p.k = "disconnect")) =>
        /\ ~(\E t \in ivals : t.live)
        /\ wsts = {}
        /\ ~endTurnInProgress

\* C19: a DRAWING phase starts with no revealed letter in the stored room, and
\* while it lasts (startDrawingPhase not being run again) every change of
\* revealedLetters appends one index of the word that was not yet revealed.
RevealsOnlyGrow ==
    [][ /\ (obs.phase = "CHOOSING" /\ obs'.phase = "DRAWING" /\ db'.exists)
            => db'.revealedLetters = <<>>
        /\ (obs.phase = "DRAWING" /\ obs'.phase = "DRAWING"
               /\ db.exists /\ db'.exists /\ roomIntervals' = roomIntervals)
            => \/ db'.revealedLetters = db.revealedLetters
               \/ \E i \in (0..(WordLength(db.currentWord) - 1))
                              \ SeqToSet(db.revealedLetters) :
                     db'.revealedLetters = Append(db.revealedLetters, i)
      ]_vars

\* C20: a DRAWING phase with a draw time above twice the second hint time that
\* was started once and ran to its deadline had exactly two hint reveals: the
\* first with at most half the draw time and more than the second hint time
\* left, the second with at most the second hint time left.
TwoHints ==
    (obs.ranOut /\ obs.selects = 1 /\ db.exists
        /\ db.drawTime > 2 * SECOND_HINT_TIME) =>
        /\ Len(obs.hints) = 2
        /\ obs.hints[1] <= db.drawTime \div 2 /\ obs.hints[1] > SECOND_HINT_TIME
        /\ obs.hints[2] <= SECOND_HINT_TIME

\* C21: when the save of an accepted startGame has been committed, the room has
\* round 1, drawerIndex 0 and every player's score is 0.
StartResets ==
    \A p \in procs :
        (p.k = "startGame" /\ p.pc = "saved" /\ p.x.res = "ok" /\ db.exists) =>
            /\ db.round = 1
            /\ db.drawerIndex = 0
            /\ \A i \in DOMAIN db.players : db.players[i].score = 0

\* C22: a guess whose sender is not a player of the room changes nothing in the
\* stored room: the step of the guess handler that follows its load leaves the
\* room as it was.
OutsiderGuessRejected ==
    [][ \A p \in procs :
          (p.k = "guess" /\ p.pc = "loaded" /\ p \notin procs'
              /\ p.s \notin PlayerIds(p.doc) /\ p.s \notin PlayerIds(db))
          => db' = db
      ]_vars

\* C23: the sender of a startGame, updateSettings or wordSelected that was
\* refused for want of authority has received exactly one error event.
RefusedWithOneError ==
    obs.refused.k # "" => obs.refused.errors = 1

\* C24: the stored settings are within their ranges: maxRounds, drawTime,
\* wordCount, maxPlayers and customWordProbability.
SettingsInRange ==
    db.exists =>
        /\ db.maxRounds \in MIN_ROUNDS..MAX_ROUNDS
        /\ db.drawTime \in MIN_DRAW_TIME..MAX_DRAW_TIME
        /\ db.wordCount \in MIN_WORD_COUNT..MAX_WORD_COUNT
        /\ db.maxPlayers \in MIN_MAX_PLAYERS..MAX_MAX_PLAYERS
        /\ db.customWordProbability \in MIN_PROBABILITY..MAX_PROBABILITY

\* C25: the room never lists more players than maxPlayers.
PlayersWithinMax ==
    db.exists => Len(db.players) <= db.maxPlayers

\* C26: the stored chat history never holds more than 50 entries.
ChatWithinFifty ==
    db.exists => Len(db.chat) <= 50

\* the Levenshtein distance of two strings, every insertion, deletion and
\* substitution of a character costing one
RECURSIVE Levenshtein(_, _)
Levenshtein(u, v) ==
    IF u = <<>> THEN Len(v)
    ELSE IF v = <<>> THEN Len(u)
    ELSE IF Head(u) = Head(v) THEN Levenshtein(Tail(u), Tail(v))
    ELSE 1 + Min3(Levenshtein(Tail(u), v), Levenshtein(u, Tail(v)),
                  Levenshtein(Tail(u), Tail(v)))

\* C27: the handling of a guess that is not the current word leaves players (and
\* their scores), correctGuessers and roundPoints as they were and broadcasts the
\* guess as chat; closeGuess is sent exactly when the word has at least 3
\* characters and its Levenshtein distance to the normalized guess is 1.
WrongGuessEchoed ==
    [][(obs'.events # obs.events /\ pf'.out = "wrong") =>
          /\ db'.players = db.players
          /\ db'.correctGuessers = db.correctGuessers
          /\ db'.roundPoints = db.roundPoints
          /\ pf'.chat = pf'.cleaned /\ pf'.chat # Null
          /\ pf'.close <=> (Len(db.currentWord) >= 3
                            /\ Levenshtein(pf'.g, db.currentWord) = 1)]_vars

\* a wrong guess at distance 1 of a word of three letters was answered by closeGuess
CloseGuessSent ==
    pf.out = "wrong" /\ pf.close /\ Len(db.currentWord) = 3

\* C28: a guess of a player who is not the drawer and has not scored, equal to
\* currentWord once both are trimmed, lower-cased and stripped of whitespace, is
\* taken as a match and goes on to the credit.
MatchingGuessCredited ==
    [][(/\ obs'.events # obs.events
        /\ pf'.by # getDrawerId(db)
        /\ pf'.by \notin SeqToSet(db.correctGuessers)
        /\ stripWhitespace(toLowerCase(trim(pf'.guess)))
              = stripWhitespace(toLowerCase(trim(db.currentWord))))
       => pf'.out = "match"]_vars

\* C29: the events of one turn are delivered in the order gameStarted,
\* selectWord/drawerSelecting, yourWord, tick, hintUpdate, correctGuess, turnEnded,
\* gameOver.  Observed on the first two kinds: startTurn emits selectWord and
\* drawerSelecting and puts the turn in CHOOSING, startDrawingPhase emits
\* gameStarted and puts it in DRAWING, so within one turn no step leads from
\* CHOOSING to DRAWING.
EventsInOrder ==
    [][~(obs.phase = "CHOOSING" /\ obs'.phase = "DRAWING" /\ obs'.turn = obs.turn)]_vars

\* C30: once the player who dropped is back in the room, players lists that
\* player exactly once, with the score held before the drop.
ReturningKeepsScore ==
    (db.exists /\ Returning.new \in inRoom) =>
        LET mine == SelectSeq(db.players,
                              LAMBDA q : q.id \in {Returning.old, Returning.new})
        IN  Len(mine) = 1 /\ mine[1].score = pf.held

\* C31: a room whose last activity is more than one hour old is eventually
\* deleted from the store.
IdleRoomDeleted ==
    (db.exists /\ pf.idle > 60) ~> ~db.exists

DrawerNeverCredited ==
    [][\A s \in obs.told :
          /\ obs'.turn = obs.turn /\ obs.ends = 0 => obs'.credits[s] <= obs.credits[s]
          /\ (obs'.turn = obs.turn /\ obs.ends = 0 /\ db'.exists
              /\ s \notin SeqToSet(db.correctGuessers))
                => s \notin SeqToSet(db'.correctGuessers)]_vars

\* C34: while the room is CHOOSING or DRAWING, the removal of a player other than
\* the drawer leaves the drawer the same player.
DrawerKeptOnLeave ==
    [][(/\ obs.phase \in {"CHOOSING", "DRAWING"}
        /\ db.exists /\ db'.exists /\ db.gameStarted
        /\ Len(db'.players) < Len(db.players)
        /\ getDrawerId(db) \in PlayerIds(db'))
       => getDrawerId(db') = getDrawerId(db)]_vars

\* C35: once turnEnded has been emitted for a turn, the credit of a guess of that
\* turn's word increases no player's score.  The turn's word is the one of its
\* first and only startDrawingPhase: no word is being selected anew.
NoCreditAfterTurnEnded ==
    [][(/\ obs.ends >= 1 /\ obs'.turn = obs.turn /\ obs'.paid > obs.paid /\ db.exists
        /\ obs.phase = "INTERMISSION" /\ obs.selects <= 1
        /\ \A q \in procs : q.k \notin {"wordSelected", "autoSelect"})
       => \A i \in DOMAIN db'.players :
             i \in DOMAIN db.players => db'.players[i].score <= db.players[i].score]_vars

\* C36: the handler of a wordSelected event of the drawer, running while the room
\* is DRAWING or in INTERMISSION, changes neither currentWord nor turnEndsAt,
\* resets neither roundPoints nor revealedLetters and leaves the tick interval
\* of the room as it is.
WordSelectedOnlyChoosing ==
    [][(/\ obs.phase \in {"DRAWING", "INTERMISSION"}
        /\ \E p \in procs : p.k = "wordSelected" /\ p \notin procs')
       => /\ db'.currentWord = db.currentWord
          /\ db'.turnEndsAt = db.turnEndsAt
          /\ db'.roundPoints = db.roundPoints
          /\ db'.revealedLetters = db.revealedLetters
          /\ roomIntervals' = roomIntervals]_vars

\* C37: the word in play in a DRAWING phase is one of the candidates that
\* startTurn generated for the turn.
WordWasOffered ==
    (db.exists /\ obs.phase = "DRAWING" /\ db.currentWord # NoWord)
        => db.currentWord \in obs.offered

\* C38: the host's startGame, handled twice, starts at most one turn: at most
\* one word-selection timeout is pending for the room.
OneTurnStarted ==
    Cardinality(wsts) <= 1

\* C39: once the disconnect handlers have returned, a started game has at least
\* 2 players: the disconnect that leaves one player ends the game.
StartedGameHasTwo ==
    (db.exists /\ db.gameStarted /\ ~(\E p \in procs : p.k = "disconnect"))
        => Len(db.players) >= 2

\* C40: when endTurn returns with the end-turn flag of the room cleared, the
\* game-over state has been committed; on its other path the flag stays set
\* until the callback of the intermission timer clears it.
FlagClearedAfterCommit ==
    [][(/\ endTurnInProgress /\ ~endTurnInProgress'
        /\ \E p \in procs : p.k = "endTurn" /\ p \notin procs')
       => \E p \in procs : /\ p.k = "endTurn" /\ p \notin procs'
                           /\ p.pc = "savedOver" /\ p.x.res = "ok"]_vars
====
